---- MODULE Spec2Model ----
(***************************************************************************)
(* Model of the wiki's page/slug management, revision ledger and share     *)
(* links (packalyst/wikigo).                                               *)
(*                                                                         *)
(* Strings are sequences of one-character strings, so that Slugify, the    *)
(* prefix tests and the slug splitting of the source are computed, not     *)
(* assumed.                                                                *)
(***************************************************************************)
EXTENDS Integers, Sequences, FiniteSets, TLC

\* ------------------------------------------------------------------------
\* Bounds of the model
\* ------------------------------------------------------------------------

\* Longest raw string handed to slugify in SlugSpec.
MaxRawLen == 5

\* Page rows ever inserted (the AUTOINCREMENT ids 1..MaxPageId).
MaxPageId == 4

\* No update is started once a stored slug is longer than this (a cascade
\* that is not followed by the page's own update can lengthen the slugs of
\* the descendants again and again).
MaxSlugLen == 5

\* Requests received in one behaviour.
MaxCalls == 4

\* Revision rows ever inserted.
MaxRevId == 3

\* Share links ever issued.
MaxLinkId == 1

\* Share accesses ever recorded.
MaxAccessId == 3

\* RecordShareAccess calls a handler makes in one request.
MaxRecordCalls == 2

\* Last instant of the clock (time.Now() in units of one tick).
MaxTime == 5

\* Security.RateLimitRequests and Security.RateLimitWindow of the
\* configuration, the window in ticks.
maxRequests == 2

window == 2

\* Security.LoginMaxAttempts and Security.LoginLockoutTime of the
\* configuration, the lockout in ticks.
maxAttempts == 2

lockoutTime == 1

\* ------------------------------------------------------------------------
\* Characters and string helpers (Go's strings package)
\* ------------------------------------------------------------------------

\* Characters a raw page name may contain in the model: lower and upper
\* case letters, a digit, the two characters slugify turns into hyphens,
\* the hyphen, the slash and a character the filter strips.
RawChars == {"a", "A", "1", " ", "_", "-", "/", "!"}

\* strings.ToLower on one character.
ToLowerChar(c) ==
  CASE c = "A" -> "a"
    [] c = "B" -> "b"
    [] c = "C" -> "c"
    [] c = "X" -> "x"
    [] OTHER -> c

\* The character class [a-z0-9/-] of slugify's filter.
SlugSafe(c) == c \in {"a", "b", "c", "x", "0", "1", "/", "-"}

MapChars(s, F(_)) == [i \in 1..Len(s) |-> F(s[i])]

\* strings.ToLower
ToLower(s) == MapChars(s, ToLowerChar)

SpaceToHyphen(c) == IF c = " " \/ c = "_" THEN "-" ELSE c

RECURSIVE StripUnsafe(_)
\* regexp [^a-z0-9/-] replaced by "".
StripUnsafe(s) ==
  IF s = <<>> THEN <<>>
  ELSE IF SlugSafe(Head(s)) THEN <<Head(s)>> \o StripUnsafe(Tail(s))
  ELSE StripUnsafe(Tail(s))

RECURSIVE CollapseRuns(_, _)
\* regexp c+ replaced by c: every run of the character c becomes one c.
CollapseRuns(s, c) ==
  IF Len(s) <= 1 THEN s
  ELSE IF s[1] = c /\ s[2] = c THEN CollapseRuns(Tail(s), c)
  ELSE <<Head(s)>> \o CollapseRuns(Tail(s), c)

RECURSIVE TrimLeft(_, _)
TrimLeft(s, cut) ==
  IF s # <<>> /\ Head(s) \in cut THEN TrimLeft(Tail(s), cut) ELSE s

RECURSIVE TrimRight(_, _)
TrimRight(s, cut) ==
  IF s # <<>> /\ s[Len(s)] \in cut
  THEN TrimRight(SubSeq(s, 1, Len(s) - 1), cut) ELSE s

\* strings.Trim(s, cutset)
Trim(s, cut) == TrimRight(TrimLeft(s, cut), cut)

\* strings.TrimSpace
TrimSpace(s) == Trim(s, {" "})

RECURSIVE RunLen(_, _)
\* Length of the run of character c at the start of s.
RunLen(s, c) ==
  IF s # <<>> /\ Head(s) = c THEN 1 + RunLen(Tail(s), c) ELSE 0

Drop(s, n) == SubSeq(s, n + 1, Len(s))

RECURSIVE HyphensAroundSlash(_)
\* regexp -*/+-* replaced by "/": successive leftmost greedy matches, each
\* replaced by one slash; text between the matches is copied.
HyphensAroundSlash(s) ==
  IF s = <<>> THEN <<>>
  ELSE LET h == RunLen(s, "-")
           afterH == Drop(s, h)
           sl == RunLen(afterH, "/")
           afterS == Drop(afterH, sl)
           t == RunLen(afterS, "-")
       IN IF sl >= 1
          THEN <<"/">> \o HyphensAroundSlash(Drop(afterS, t))
          ELSE <<Head(s)>> \o HyphensAroundSlash(Tail(s))

\* slugify: the seven steps of the source, in its order.
slugify(name) ==
  LET lower == ToLower(name)
      hyph == MapChars(lower, SpaceToHyphen)
      safe == StripUnsafe(hyph)
      oneHyphen == CollapseRuns(safe, "-")
      oneSlash == CollapseRuns(oneHyphen, "/")
      trimmed == Trim(oneSlash, {"-", "/"})
  IN HyphensAroundSlash(trimmed)

Slugify(name) == slugify(name)

\* All strings over the characters cs of length at most n.
RECURSIVE StringsUpTo(_, _)
StringsUpTo(cs, n) ==
  IF n = 0 THEN {<<>>}
  ELSE LET shorter == StringsUpTo(cs, n - 1)
       IN shorter \cup {Append(s, c) : s \in shorter, c \in cs}

\* ------------------------------------------------------------------------
\* Slug structure (strings.Split, strings.Join, HasPrefix, TrimPrefix)
\* ------------------------------------------------------------------------

Contains(s, c) == \E i \in 1..Len(s) : s[i] = c

RECURSIVE Split(_, _)
\* strings.Split(s, sep) for a one-character separator: the segments,
\* empty ones included; Split("", sep) is one empty segment.
Split(s, sep) ==
  IF ~Contains(s, sep) THEN <<s>>
  ELSE LET k == CHOOSE i \in 1..Len(s) :
                  s[i] = sep /\ \A j \in 1..(i - 1) : s[j] # sep
       IN <<SubSeq(s, 1, k - 1)>> \o Split(Drop(s, k), sep)

RECURSIVE Join(_, _)
\* strings.Join(parts, sep)
Join(parts, sep) ==
  IF parts = <<>> THEN <<>>
  ELSE IF Len(parts) = 1 THEN parts[1]
  ELSE parts[1] \o <<sep>> \o Join(Tail(parts), sep)

\* strings.HasPrefix
HasPrefix(s, pre) == Len(s) >= Len(pre) /\ SubSeq(s, 1, Len(pre)) = pre

\* strings.TrimPrefix
TrimPrefix(s, pre) == IF HasPrefix(s, pre) THEN Drop(s, Len(pre)) ELSE s

\* strings.Title on one character.
ToUpperChar(c) ==
  CASE c = "a" -> "A"
    [] c = "b" -> "B"
    [] c = "c" -> "C"
    [] c = "x" -> "X"
    [] OTHER -> c

\* strings.Title(strings.ReplaceAll(segment, "-", " ")): the title of an
\* auto-created parent page; the first letter of every word is upper-cased.
HumanizeSegment(seg) ==
  LET spaced == [i \in 1..Len(seg) |-> IF seg[i] = "-" THEN " " ELSE seg[i]]
  IN [i \in 1..Len(spaced) |->
        IF i = 1 \/ spaced[i - 1] = " " THEN ToUpperChar(spaced[i])
        ELSE spaced[i]]

RECURSIVE SetToSeq(_)
\* The elements of a finite set of integers in ascending order.
SetToSeq(S) ==
  IF S = {} THEN <<>>
  ELSE LET m == CHOOSE x \in S : \A y \in S : x <= y
       IN <<m>> \o SetToSeq(S \ {m})

Range(f) == {f[i] : i \in DOMAIN f}

\* ------------------------------------------------------------------------
\* State
\* ------------------------------------------------------------------------

VARIABLES
  pages,       \* table pages: id -> [slug, title, content, parent, published]
  nextPageId,  \* AUTOINCREMENT counter of table pages
  revisions,   \* table revisions: id -> [page, content, comment]
  nextRevId,   \* AUTOINCREMENT counter of table revisions
  req,         \* per request slot: the running call, its locals, its result
  calls,       \* number of requests received so far
  sPc,         \* SlugSpec: "raw", "once" or "twice"
  sInput,      \* SlugSpec: the raw page name
  sOnce,       \* SlugSpec: Slugify(sInput)
  sTwice,      \* SlugSpec: Slugify(Slugify(sInput))
  pageTags,    \* table page_tags: the set of <<page_id, tag name>>
  shareLinks,  \* table share_links: id -> [page, includeChildren, maxViews,
               \*   maxIPs, expiresAt, revoked, viewCount]
  nextLinkId,  \* AUTOINCREMENT counter of table share_links
  shareAccess, \* table share_link_access: id -> [link, ip]
  nextAccessId, \* AUTOINCREMENT counter of table share_link_access
  now,           \* time.Now(), in ticks
  rlRequests,    \* RateLimiter.requests: client -> [count, expiresAt]
  rlPassed,      \* per client and instant, the requests allow let through
  loginAttempts  \* LoginRateLimiter.attempts: ip -> [count, lockedAt, lastTry]

storeVars == <<pages, nextPageId, revisions, nextRevId>>

\* The tables of tags and share links.
shareVars == <<pageTags, shareLinks, nextLinkId, shareAccess, nextAccessId>>

slugVars == <<sPc, sInput, sOnce, sTwice>>

\* What a statement of a running call leaves alone besides the store.
otherVars == <<calls, sPc, sInput, sOnce, sTwice, now, rlRequests, rlPassed, loginAttempts>>

\* The clock and the two in-memory limiters.
limiterVars == <<now, rlRequests, rlPassed, loginAttempts>>

vars == <<pages, nextPageId, revisions, nextRevId, req, calls, sPc, sInput, sOnce, sTwice,
          pageTags, shareLinks, nextLinkId, shareAccess, nextAccessId,
          now, rlRequests, rlPassed, loginAttempts>>

\* ------------------------------------------------------------------------
\* The store (SQLite schema and queries)
\* ------------------------------------------------------------------------

\* parent_id NULL
NoParent == 0

\* A nil *string of models.PageUpdate (a sequence no string of characters
\* equals), and a nil content.
NilStr == <<"nil">>
NilContent == "nil"

\* pages.slug is UNIQUE COLLATE NOCASE: some row other than `except`
\* carries the slug, compared ignoring case.
SlugTaken(pg, slug, except) ==
  \E q \in DOMAIN pg : q # except /\ ToLower(pg[q].slug) = ToLower(slug)

\* GetPageBySlug: the id of the row WHERE slug = ? COLLATE NOCASE, 0 for
\* no row (nil, nil).
GetPageBySlug(pg, slug) ==
  IF \E q \in DOMAIN pg : ToLower(pg[q].slug) = ToLower(slug)
  THEN CHOOSE q \in DOMAIN pg : ToLower(pg[q].slug) = ToLower(slug)
  ELSE 0

\* INSERT INTO pages: the table with the new row under the next id.
InsertPage(pg, id, row) == [q \in DOMAIN pg \cup {id} |-> IF q = id THEN row ELSE pg[q]]

\* INSERT INTO revisions.
InsertRevision(rv, id, row) == [q \in DOMAIN rv \cup {id} |-> IF q = id THEN row ELSE rv[q]]

\* The rows WHERE parent_id = id, in index order (parent_id, rowid).
ChildrenOf(pg, id) == SetToSeq({c \in DOMAIN pg : pg[c].parent = id})

RECURSIVE DescendantRows(_, _, _)
\* The recursive CTE of GetAllDescendants and IsPageDescendant: SQLite
\* takes a row from the queue, emits it and queues the rows the recursive
\* SELECT joins to it (UNION ALL: no row is ever dropped as a duplicate).
\* `fuel` counts emitted rows; a parent_id graph of n pages without a cycle
\* emits fewer than n rows, so running out of fuel means the query never
\* ends.  The result is the emitted rows, ended by 0 when it does not end.
DescendantRows(pg, queue, fuel) ==
  IF queue = <<>> THEN <<>>
  ELSE IF fuel = 0 THEN <<0>>
  ELSE <<Head(queue)>> \o
       DescendantRows(pg, Tail(queue) \o ChildrenOf(pg, Head(queue)), fuel - 1)

\* GetAllDescendants: the (id, slug) rows of the CTE, and whether the
\* query ends.
GetAllDescendants(pg, parentID) ==
  LET ids == DescendantRows(pg, ChildrenOf(pg, parentID), Cardinality(DOMAIN pg))
      ends == \A i \in 1..Len(ids) : ids[i] # 0
      rows == SelectSeq(ids, LAMBDA x : x # 0)
  IN [ends |-> ends,
      rows |-> [i \in 1..Len(rows) |-> [id |-> rows[i], slug |-> pg[rows[i]].slug]]]

\* COUNT(*) > 0 over all pages whose slug is childSlug under NOCASE.
IsPageBySlug(pg, parentID, childSlug) ==
  [ends |-> TRUE,
   found |-> \E q \in DOMAIN pg : ToLower(pg[q].slug) = ToLower(childSlug)]

\* IsPageDescendant: COUNT(*) > 0 over the rows of the same CTE whose slug
\* is childSlug under NOCASE, and whether the query ends.
IsPageDescendant(pg, parentID, childSlug) ==
  LET d == GetAllDescendants(pg, parentID)
  IN [ends |-> d.ends,
      found |-> \E i \in 1..Len(d.rows) :
                  ToLower(d.rows[i].slug) = ToLower(childSlug)]

\* DELETE FROM pages WHERE id = ?: the row goes; parent_id of its children
\* is set NULL (ON DELETE SET NULL).
DeletePageRow(pg, id) ==
  [q \in DOMAIN pg \ {id} |->
     IF pg[q].parent = id THEN [pg[q] EXCEPT !.parent = NoParent] ELSE pg[q]]

\* revisions.page_id REFERENCES pages(id) ON DELETE CASCADE.
CascadeRevisions(rv, pg) == [r \in {x \in DOMAIN rv : rv[x].page \in DOMAIN pg} |-> rv[r]]

\* A nil []string.
NilTags == {<<"nil">>}

\* SetPageTags(pageID, tagNames), one transaction: the page's rows go, then
\* one row per name that is not blank, under the tag of its trimmed lower
\* case name (INSERT OR IGNORE).  Without the page row the INSERT breaks
\* the foreign key and the transaction is rolled back.
SetPageTags(tg, pg, pageID, tagNames) ==
  LET names == {ToLower(TrimSpace(n)) : n \in {m \in tagNames : TrimSpace(m) # <<>>}}
  IN IF names # {} /\ pageID \notin DOMAIN pg THEN tg
     ELSE {t \in tg : t[1] # pageID} \cup {<<pageID, n>> : n \in names}

\* page_tags.page_id REFERENCES pages(id) ON DELETE CASCADE.
CascadeTags(tg, pg) == {t \in tg : t[1] \in DOMAIN pg}

\* share_links.page_id REFERENCES pages(id) ON DELETE CASCADE.
CascadeLinks(sl, pg) == [l \in {x \in DOMAIN sl : sl[x].page \in DOMAIN pg} |-> sl[l]]

\* share_link_access without its ON DELETE CASCADE.
CascadeAccessOff(sa, sl) == sa

\* share_link_access.share_link_id REFERENCES share_links(id) ON DELETE
\* CASCADE.
CascadeAccess(sa, sl) == [a \in {x \in DOMAIN sa : sa[x].link \in DOMAIN sl} |-> sa[a]]

\* ------------------------------------------------------------------------
\* Requests
\* ------------------------------------------------------------------------

\* Request slots: Spec runs one request at a time in slot 1, ConcSpec runs
\* the requests of both slots interleaved statement by statement.
Slots == {1, 2}

\* A models.Page as a request holds it.
NoRow == [slug |-> <<>>, title |-> <<>>, content |-> "", parent |-> NoParent,
          published |-> FALSE]

\* Revision comments: a fixed text, or "Reverted to revision %d" with its
\* number.
Comment(text) == [text |-> text, n |-> 0]
NoComment == Comment("")

\* The tables as a *sql.Tx sees them: the statements of a transaction work
\* on them, Commit makes them the store, Rollback drops them.  SQLite lets
\* one connection write at a time, so the store does not change under an
\* open transaction that has written.
NoTx == [pages |-> <<>>, revisions |-> <<>>, pageTags |-> {}, shareLinks |-> <<>>,
         shareAccess |-> <<>>]

\* A models.ShareLink at its zero value; max_views, max_ips NULL are 0, and
\* expires_at is "never" (NULL), "later" (not yet passed) or "past".
NoLink == [page |-> 0, includeChildren |-> FALSE, maxViews |-> 0, maxIPs |-> 0,
           expiresAt |-> "never", revoked |-> FALSE, viewCount |-> 0]

\* A slot with no call: every local at its zero value.
IdleReq ==
  [op |-> "none", pc |-> "idle", err |-> "",
   pageID |-> 0, slug |-> <<>>, oldSlug |-> <<>>,
   title |-> NilStr, content |-> NilContent, comment |-> NoComment,
   revisionID |-> 0,
   page |-> NoRow, i |-> 0, parentID |-> NoParent, ret |-> "",
   todo |-> <<>>, changes |-> <<>>, ids |-> <<>>,
   tx |-> NoTx, tags |-> NilTags,
   linkID |-> 0, link |-> NoLink, linkSlug |-> <<>>, ip |-> "",
   valid |-> FALSE, accessed |-> FALSE,
   pre |-> <<>>, preRevs |-> <<>>, preShare |-> <<{}, <<>>, <<>>>>]

\* A call begins in a slot with no call.
Free(p) == req[p].pc = "idle"

\* The slot of a call that begins in the current store.
Begin(op) ==
  [IdleReq EXCEPT !.op = op, !.pre = pages, !.preRevs = revisions,
                  !.preShare = <<pageTags, shareLinks, shareAccess>>]

\* return: the locals of the loops die, the result stays in the slot.
Return(r, err) ==
  [r EXCEPT !.pc = "done", !.err = err, !.i = 0, !.parentID = NoParent,
            !.ret = "", !.todo = <<>>, !.ids = <<>>]

Put(p, r) == req' = [req EXCEPT ![p] = r]

\* ------------------------------------------------------------------------
\* WikiService.ensureParentPages
\* ------------------------------------------------------------------------

\* parts[:i+1] joined: the i-th ancestor prefix of the slug.
ParentSlug(slug, i) == Join(SubSeq(Split(slug, "/"), 1, i), "/")

\* A variant that forgets the parent found or created for the prefix.
EnsureAdvanceStale(r, parentID) ==
  IF r.i + 1 <= Len(Split(r.slug, "/")) - 1
  THEN [r EXCEPT !.pc = "ensure_get", !.i = r.i + 1]
  ELSE [r EXCEPT !.pc = r.ret, !.ret = "", !.i = 0]

\* i++ and the loop test: the next prefix, or back to the caller.
EnsureAdvance(r, parentID) ==
  IF r.i + 1 <= Len(Split(r.slug, "/")) - 1
  THEN [r EXCEPT !.pc = "ensure_get", !.i = r.i + 1, !.parentID = parentID]
  ELSE [r EXCEPT !.pc = r.ret, !.ret = "", !.i = 0, !.parentID = parentID]

\* The call of ensureParentPages, when the slug has a slash.
EnsureEnter(r, ret) ==
  IF Contains(r.slug, "/")
  THEN [r EXCEPT !.pc = "ensure_get", !.i = 1, !.ret = ret, !.parentID = NoParent]
  ELSE [r EXCEPT !.pc = ret, !.parentID = NoParent]

\* GetPageBySlug(parentSlug): an existing prefix gives the next parent.
EnsureGet(p) ==
  /\ req[p].pc = "ensure_get"
  /\ LET r == req[p]
         existing == GetPageBySlug(pages, ParentSlug(r.slug, r.i))
     IN IF existing # 0
        THEN Put(p, EnsureAdvance(r, existing))
        ELSE Put(p, [r EXCEPT !.pc = "ensure_insert"])
  /\ UNCHANGED <<storeVars, otherVars, shareVars>>

\* db.CreatePage(parent): the placeholder page of a missing prefix.  The
\* INSERT fails on the UNIQUE slug and on a parent_id without a row.
EnsureInsert(p) ==
  /\ req[p].pc = "ensure_insert"
  /\ LET r == req[p]
         parentSlug == ParentSlug(r.slug, r.i)
         row == [slug |-> parentSlug,
                 title |-> HumanizeSegment(Split(r.slug, "/")[r.i]),
                 content |-> "", parent |-> r.parentID, published |-> TRUE]
     IN IF \/ SlugTaken(pages, parentSlug, 0)
           \/ (r.parentID # NoParent /\ r.parentID \notin DOMAIN pages)
        THEN /\ Put(p, Return(r, "ErrInternal"))
             /\ UNCHANGED <<pages, nextPageId>>
        ELSE /\ pages' = InsertPage(pages, nextPageId, row)
             /\ nextPageId' = nextPageId + 1
             /\ Put(p, EnsureAdvance(r, nextPageId))
  /\ UNCHANGED <<revisions, nextRevId, otherVars, shareVars>>

\* ------------------------------------------------------------------------
\* WikiService.CreatePage
\* ------------------------------------------------------------------------

\* A variant that never takes the slug from the title.
CreateSlugGivenOnly(rawSlug, rawTitle) == Slugify(TrimSpace(rawSlug))

\* The slug CreatePage works with: from the title when none is given.
CreateSlug(rawSlug, rawTitle) ==
  IF TrimSpace(rawSlug) = <<>> THEN Slugify(rawTitle) ELSE Slugify(TrimSpace(rawSlug))

\* Validation and the existence check, up to the first statement after it.
StartCreatePage(p, rawSlug, rawTitle, content) ==
  /\ Free(p)
  /\ calls < MaxCalls
  /\ calls' = calls + 1
  /\ nextPageId + Len(Split(CreateSlug(rawSlug, rawTitle), "/")) - 1 <= MaxPageId
  /\ nextRevId <= MaxRevId
  /\ LET slug == CreateSlug(rawSlug, rawTitle)
         title == TrimSpace(rawTitle)
         r == [Begin("CreatePage") EXCEPT !.slug = slug, !.title = title,
                                          !.content = content]
     IN IF slug = <<>> THEN Put(p, Return(r, "ErrInvalidSlug"))
        ELSE IF title = <<>> THEN Put(p, Return(r, "ErrInvalidTitle"))
        ELSE IF GetPageBySlug(pages, slug) # 0 THEN Put(p, Return(r, "ErrPageExists"))
        ELSE Put(p, EnsureEnter(r, "create_insert"))
  /\ UNCHANGED <<storeVars, slugVars, shareVars, limiterVars>>

\* db.CreatePage(page).
CreateInsert(p) ==
  /\ req[p].pc = "create_insert"
  /\ LET r == req[p]
         row == [slug |-> r.slug, title |-> r.title, content |-> r.content,
                 parent |-> r.parentID, published |-> TRUE]
     IN IF \/ SlugTaken(pages, r.slug, 0)
           \/ (r.parentID # NoParent /\ r.parentID \notin DOMAIN pages)
        THEN /\ Put(p, Return(r, "ErrInternal"))
             /\ UNCHANGED <<pages, nextPageId>>
        ELSE /\ pages' = InsertPage(pages, nextPageId, row)
             /\ nextPageId' = nextPageId + 1
             /\ Put(p, [r EXCEPT !.pc = "create_revision", !.pageID = nextPageId,
                                 !.page = row, !.parentID = NoParent])
  /\ UNCHANGED <<revisions, nextRevId, otherVars, shareVars>>

\* db.CreateRevision of the initial revision; its failure (the page row is
\* gone again) is logged, not returned.
CreateInitialRevision(p) ==
  /\ req[p].pc = "create_revision"
  /\ LET r == req[p]
     IN /\ IF r.pageID \in DOMAIN pages
           THEN /\ revisions' = InsertRevision(revisions, nextRevId,
                      [page |-> r.pageID, content |-> r.content,
                       comment |-> Comment("Initial version")])
                /\ nextRevId' = nextRevId + 1
           ELSE UNCHANGED <<revisions, nextRevId>>
        /\ Put(p, Return(r, ""))
  /\ UNCHANGED <<pages, nextPageId, otherVars, shareVars>>

\* ------------------------------------------------------------------------
\* WikiService.UpdatePage
\* ------------------------------------------------------------------------

\* GetPageByID and the test of the slug input: r carries the inputs.
UpdateEnter(r) ==
  IF r.pageID \notin DOMAIN pages THEN Return(r, "ErrPageNotFound")
  ELSE LET page == pages[r.pageID]
           newSlug == IF r.slug = NilStr THEN <<>> ELSE Slugify(r.slug)
       IN IF r.slug # NilStr /\ newSlug # <<>> /\ newSlug # page.slug
          THEN [r EXCEPT !.page = page, !.slug = newSlug, !.oldSlug = page.slug,
                         !.pc = "upd_check"]
          ELSE [r EXCEPT !.page = page, !.slug = <<>>, !.pc = "upd_revision"]

\* UpdatePage(pageID, input, comment) called by a handler; nil inputs are
\* NilStr and NilContent.
StartUpdatePage(p, pageID, rawSlug, rawTitle, content, tags) ==
  /\ Free(p)
  /\ calls < MaxCalls
  /\ calls' = calls + 1
  /\ \A q \in DOMAIN pages : Len(pages[q].slug) <= MaxSlugLen
  /\ rawSlug = NilStr \/ nextPageId + Len(Split(Slugify(rawSlug), "/")) - 2 <= MaxPageId
  /\ content = NilContent \/ nextRevId <= MaxRevId
  /\ Put(p, UpdateEnter([Begin("UpdatePage") EXCEPT
                           !.pageID = pageID, !.slug = rawSlug, !.title = rawTitle,
                           !.content = content, !.tags = tags,
                           !.comment = Comment("Updated via web editor")]))
  /\ UNCHANGED <<storeVars, slugVars, shareVars, limiterVars>>

\* The first statement of the UpdatePage that RevertToRevision calls.
UpdateGetPage(p) ==
  /\ req[p].pc = "upd_get"
  /\ Put(p, UpdateEnter(req[p]))
  /\ UNCHANGED <<storeVars, otherVars, shareVars>>

\* GetPageBySlug(newSlug): the collision check, then the new parent chain.
UpdateCheckSlug(p) ==
  /\ req[p].pc = "upd_check"
  /\ LET r == req[p]
         existing == GetPageBySlug(pages, r.slug)
     IN IF existing # 0 /\ existing # r.pageID
        THEN Put(p, Return(r, "ErrPageExists"))
        ELSE Put(p, EnsureEnter(r, "upd_descendants"))
  /\ UNCHANGED <<storeVars, otherVars, shareVars>>

\* The descendants whose slug has oldSlug + "/" as a prefix, in row order.
CascadeTargets(rows, oldSlug) ==
  SelectSeq(rows, LAMBDA d : HasPrefix(d.slug, oldSlug \o <<"/">>))

\* newSlug + strings.TrimPrefix(desc.Slug, oldSlug)
NewChildSlug(newSlug, oldSlug, descSlug) == newSlug \o TrimPrefix(descSlug, oldSlug)

\* page.Slug, page.ParentID are set on the local page and GetAllDescendants
\* is queried.  A query that does not end leaves the request hanging.
UpdateGetDescendants(p) ==
  /\ req[p].pc = "upd_descendants"
  /\ LET r == req[p]
         page == [r.page EXCEPT !.slug = r.slug, !.parent = r.parentID]
         d == GetAllDescendants(pages, r.pageID)
         todo == CascadeTargets(d.rows, r.oldSlug)
     IN IF ~d.ends
        THEN Put(p, [r EXCEPT !.page = page, !.pc = "hung", !.parentID = NoParent])
        ELSE Put(p, [r EXCEPT !.page = page, !.todo = todo, !.parentID = NoParent,
                              !.pc = IF todo = <<>> THEN "upd_revision"
                                     ELSE "upd_cascade"])
  /\ UNCHANGED <<storeVars, otherVars, shareVars>>

\* db.UpdatePageSlug of the next descendant, one statement per descendant.
\* An UPDATE of a row that is gone changes nothing and is no error; one that
\* breaks the UNIQUE slug fails and UpdatePage returns.
UpdateCascadeStep(p) ==
  /\ req[p].pc = "upd_cascade"
  /\ LET r == req[p]
         desc == Head(r.todo)
         newChildSlug == NewChildSlug(r.slug, r.oldSlug, desc.slug)
     IN IF desc.id \in DOMAIN pages /\ SlugTaken(pages, newChildSlug, desc.id)
        THEN /\ Put(p, Return(r, "ErrInternal"))
             /\ UNCHANGED pages
        ELSE /\ pages' = IF desc.id \in DOMAIN pages
                         THEN [pages EXCEPT ![desc.id].slug = newChildSlug]
                         ELSE pages
             /\ Put(p, [r EXCEPT
                   !.changes = Append(r.changes, [old |-> desc.slug, new |-> newChildSlug]),
                   !.todo = Tail(r.todo),
                   !.pc = IF Tail(r.todo) = <<>> THEN "upd_revision" ELSE "upd_cascade"])
  /\ UNCHANGED <<nextPageId, revisions, nextRevId, otherVars, shareVars>>

\* A variant that stores the content the update writes.
PostUpdateRevision(r) ==
  [page |-> r.pageID, content |-> r.content, comment |-> r.comment]

\* The row "Save revision before update" inserts: the content loaded from
\* the store before any field is written, with the caller's comment.
PreUpdateRevision(r) ==
  [page |-> r.pageID, content |-> r.page.content, comment |-> r.comment]

\* "Save revision before update", then the title and content fields of the
\* local page.  A failed CreateRevision is logged, not returned.
UpdateSaveRevision(p) ==
  /\ req[p].pc = "upd_revision"
  /\ LET r == req[p]
         saves == r.content # NilContent /\ r.content # r.page.content
         title == IF r.title = NilStr THEN r.page.title ELSE TrimSpace(r.title)
         page == [r.page EXCEPT
                    !.title = title,
                    !.content = IF r.content = NilContent THEN @ ELSE r.content]
     IN /\ IF saves /\ r.pageID \in DOMAIN pages
           THEN /\ revisions' = InsertRevision(revisions, nextRevId,
                                                PreUpdateRevision(r))
                /\ nextRevId' = nextRevId + 1
           ELSE UNCHANGED <<revisions, nextRevId>>
        /\ IF r.title # NilStr /\ title = <<>>
           THEN Put(p, Return(r, "ErrInvalidTitle"))
           ELSE Put(p, [r EXCEPT !.page = page, !.pc = "upd_write"])
  /\ UNCHANGED <<pages, nextPageId, otherVars, shareVars>>

\* db.UpdatePage(page): UPDATE pages SET slug, title, content, parent_id
\* WHERE id.  No row: nothing changes, no error.  The statement fails on the
\* UNIQUE slug and on a parent_id without a row.
UpdateWrite(p) ==
  /\ req[p].pc = "upd_write"
  /\ LET r == req[p]
     IN IF r.pageID \notin DOMAIN pages
        THEN /\ IF r.tags = NilTags THEN Put(p, Return(r, ""))
                ELSE Put(p, [r EXCEPT !.pc = "upd_tags"])
             /\ UNCHANGED pages
        ELSE IF \/ SlugTaken(pages, r.page.slug, r.pageID)
                \/ (r.page.parent # NoParent /\ r.page.parent \notin DOMAIN pages)
        THEN /\ Put(p, Return(r, "ErrInternal"))
             /\ UNCHANGED pages
        ELSE /\ pages' = [pages EXCEPT ![r.pageID] = r.page]
             /\ IF r.tags = NilTags THEN Put(p, Return(r, ""))
                ELSE Put(p, [r EXCEPT !.pc = "upd_tags"])
  /\ UNCHANGED <<nextPageId, revisions, nextRevId, otherVars, shareVars>>

\* "Update tags if provided": db.SetPageTags; its failure is logged, not
\* returned.
UpdateSetTags(p) ==
  /\ req[p].pc = "upd_tags"
  /\ pageTags' = SetPageTags(pageTags, pages, req[p].pageID, req[p].tags)
  /\ Put(p, Return(req[p], ""))
  /\ UNCHANGED <<storeVars, otherVars, shareLinks, nextLinkId, shareAccess, nextAccessId>>

\* ------------------------------------------------------------------------
\* WikiService.RevertToRevision
\* ------------------------------------------------------------------------

\* fmt.Sprintf("Reverted to revision %d", revisionID)
RevertComment(revisionID) == [text |-> "Reverted to revision", n |-> revisionID]

\* GetRevision, then UpdatePage with the revision's content as the only input.
StartRevertToRevision(p, revisionID) ==
  /\ Free(p)
  /\ calls < MaxCalls
  /\ calls' = calls + 1
  /\ nextRevId <= MaxRevId
  /\ LET r == Begin("RevertToRevision")
     IN IF revisionID \notin DOMAIN revisions
        THEN Put(p, Return(r, "ErrRevisionNotFound"))
        ELSE Put(p, [r EXCEPT !.pageID = revisions[revisionID].page,
                              !.slug = NilStr,
                              !.content = revisions[revisionID].content,
                              !.revisionID = revisionID,
                              !.comment = RevertComment(revisionID),
                              !.pc = "upd_get"])
  /\ UNCHANGED <<storeVars, slugVars, shareVars, limiterVars>>

\* ------------------------------------------------------------------------
\* Handlers.DeletePage (web) with collectDescendants and DB.DeletePages
\* ------------------------------------------------------------------------

\* Byte value order of the characters (SQLite's BINARY collation).
CharRank(c) ==
  CASE c = " " -> 32 [] c = "!" -> 33 [] c = "-" -> 45 [] c = "/" -> 47
    [] c = "0" -> 48 [] c = "1" -> 49
    [] c = "A" -> 65 [] c = "B" -> 66 [] c = "C" -> 67 [] c = "X" -> 88
    [] c = "_" -> 95
    [] c = "a" -> 97 [] c = "b" -> 98 [] c = "c" -> 99 [] c = "x" -> 120
    [] OTHER -> 127

RECURSIVE StrLess(_, _)
\* a < b in byte order.
StrLess(a, b) ==
  IF b = <<>> THEN FALSE
  ELSE IF a = <<>> THEN TRUE
  ELSE IF CharRank(Head(a)) # CharRank(Head(b)) THEN CharRank(Head(a)) < CharRank(Head(b))
  ELSE StrLess(Tail(a), Tail(b))

RECURSIVE ByTitle(_, _)
\* The rows S ORDER BY title ASC (equal titles in rowid order).
ByTitle(pg, S) ==
  IF S = {} THEN <<>>
  ELSE LET m == CHOOSE x \in S : \A y \in S \ {x} :
                  \/ StrLess(pg[x].title, pg[y].title)
                  \/ (pg[x].title = pg[y].title /\ x < y)
       IN <<m>> \o ByTitle(pg, S \ {m})

\* GetPageChildren: WHERE parent_id = ? ORDER BY title ASC.
GetPageChildren(pg, parentID) == ByTitle(pg, {c \in DOMAIN pg : pg[c].parent = parentID})

RECURSIVE CollectFrom(_, _, _)
\* collectDescendants as a walk over the pending children: a child is
\* appended, then its own children are walked before its later siblings.
\* As for DescendantRows, fuel that runs out means the recursion never
\* returns; the list then ends in 0.
CollectFrom(pg, pending, fuel) ==
  IF pending = <<>> THEN <<>>
  ELSE IF fuel = 0 THEN <<0>>
  ELSE <<Head(pending)>> \o
       CollectFrom(pg, GetPageChildren(pg, Head(pending)) \o Tail(pending), fuel - 1)

\* collectDescendants(parentID): the ids appended to *pages.
collectDescendants(pg, parentID) ==
  CollectFrom(pg, GetPageChildren(pg, parentID), Cardinality(DOMAIN pg))

\* The list in the order it was collected.
Collected(s) == s

\* "Build list of IDs in reverse order (children first, parents last)".
Reverse(s) == [i \in 1..Len(s) |-> s[Len(s) + 1 - i]]

RECURSIVE DeleteRows(_, _)
\* The DELETE statements of DeletePages, in the order of ids.
DeleteRows(pg, ids) ==
  IF ids = <<>> THEN pg
  ELSE DeleteRows(IF Head(ids) \in DOMAIN pg THEN DeletePageRow(pg, Head(ids)) ELSE pg,
                  Tail(ids))

\* GetPageByID of the page to delete.
StartDeletePage(p, pageID) ==
  /\ Free(p)
  /\ calls < MaxCalls
  /\ calls' = calls + 1
  /\ IF pageID \notin DOMAIN pages
     THEN Put(p, Return(Begin("DeletePage"), "ErrPageNotFound"))
     ELSE Put(p, [Begin("DeletePage") EXCEPT !.pageID = pageID,
                                             !.page = pages[pageID],
                                             !.pc = "del_collect"])
  /\ UNCHANGED <<storeVars, slugVars, shareVars, limiterVars>>

\* pagesToDelete: the page, then collectDescendants; pageIDs is its reverse.
DeleteCollect(p) ==
  /\ req[p].pc = "del_collect"
  /\ LET r == req[p]
         found == collectDescendants(pages, r.pageID)
     IN IF \E k \in 1..Len(found) : found[k] = 0
        THEN Put(p, [r EXCEPT !.pc = "hung"])
        ELSE Put(p, [r EXCEPT !.ids = Reverse(<<r.pageID>> \o found),
                              !.pc = "del_pages"])
  /\ UNCHANGED <<storeVars, otherVars, shareVars>>

\* db.DeletePages(pageIDs): Transaction begins (BeginTx).
DeletePages(p) ==
  /\ req[p].pc = "del_pages"
  /\ Put(p, [req[p] EXCEPT
               !.tx = [pages |-> pages, revisions |-> revisions, pageTags |-> pageTags,
                       shareLinks |-> shareLinks, shareAccess |-> shareAccess],
               !.i = 1, !.pc = "del_exec"])
  /\ UNCHANGED <<storeVars, otherVars, shareVars>>

\* A variant of the failure below that keeps what the statements did.
DeletePagesKeep(p) ==
  /\ req[p].pc = "del_exec"
  /\ pages' = req[p].tx.pages
  /\ revisions' = req[p].tx.revisions
  /\ pageTags' = req[p].tx.pageTags
  /\ shareLinks' = req[p].tx.shareLinks
  /\ shareAccess' = req[p].tx.shareAccess
  /\ Put(p, [req[p] EXCEPT !.tx = NoTx, !.pc = "done", !.err = "ErrInternal"])
  /\ UNCHANGED <<nextPageId, nextRevId, nextLinkId, nextAccessId, otherVars>>

\* A DELETE of the loop fails (the context is cancelled, the database is
\* busy): fn returns the error and Transaction calls tx.Rollback().
DeletePagesFail(p) ==
  /\ req[p].pc = "del_exec"
  /\ Put(p, [req[p] EXCEPT !.tx = NoTx, !.pc = "done", !.err = "ErrInternal"])
  /\ UNCHANGED <<storeVars, otherVars, shareVars>>

\* tx.ExecContext("DELETE FROM pages WHERE id = ?", ids[i]) with the
\* cascades of the schema; after the last id fn returns nil.
DeletePagesExec(p) ==
  /\ req[p].pc = "del_exec"
  /\ LET r == req[p]
         pg == DeleteRows(r.tx.pages, <<r.ids[r.i]>>)
         sl == CascadeLinks(r.tx.shareLinks, pg)
     IN Put(p, [r EXCEPT
                  !.tx = [pages |-> pg,
                          revisions |-> CascadeRevisions(r.tx.revisions, pg),
                          pageTags |-> CascadeTags(r.tx.pageTags, pg),
                          shareLinks |-> sl,
                          shareAccess |-> CascadeAccess(r.tx.shareAccess, sl)],
                  !.i = r.i + 1,
                  !.pc = IF r.i = Len(r.ids) THEN "del_commit" ELSE "del_exec"])
  /\ UNCHANGED <<storeVars, otherVars, shareVars>>

\* tx.Commit(): the transaction's tables become the store.
DeletePagesCommit(p) ==
  /\ req[p].pc = "del_commit"
  /\ pages' = req[p].tx.pages
  /\ revisions' = req[p].tx.revisions
  /\ pageTags' = req[p].tx.pageTags
  /\ shareLinks' = req[p].tx.shareLinks
  /\ shareAccess' = req[p].tx.shareAccess
  /\ Put(p, [req[p] EXCEPT !.tx = NoTx, !.i = 0, !.pc = "done", !.err = ""])
  /\ UNCHANGED <<nextPageId, nextRevId, nextLinkId, nextAccessId, otherVars>>

\* ------------------------------------------------------------------------
\* api.Handlers.UpdatePage (PUT /api/v1/pages/:slug)
\* ------------------------------------------------------------------------

\* GetPageBySlug of the URL parameter.
StartApiUpdatePage(p, slugParam, title, content) ==
  /\ Free(p)
  /\ calls < MaxCalls
  /\ calls' = calls + 1
  /\ nextRevId <= MaxRevId
  /\ LET id == GetPageBySlug(pages, slugParam)
         r == [Begin("ApiUpdatePage") EXCEPT !.title = title, !.content = content,
                                             !.comment = Comment("API update")]
     IN IF id = 0 THEN Put(p, Return(r, "ErrPageNotFound"))
        ELSE Put(p, [r EXCEPT !.pageID = id, !.page = pages[id],
                              !.pc = "api_revision"])
  /\ UNCHANGED <<storeVars, slugVars, shareVars, limiterVars>>

\* "Create revision before updating": db.CreateRevision with the content
\* read, whatever the request changes; its error is dropped.  Then the
\* fields of the request are copied, the title as sent.
ApiSaveRevision(p) ==
  /\ req[p].pc = "api_revision"
  /\ LET r == req[p]
         page == [r.page EXCEPT
                    !.title = IF r.title = NilStr THEN @ ELSE r.title,
                    !.content = IF r.content = NilContent THEN @ ELSE r.content]
     IN /\ IF r.pageID \in DOMAIN pages
           THEN /\ revisions' = InsertRevision(revisions, nextRevId,
                      [page |-> r.pageID, content |-> r.page.content,
                       comment |-> r.comment])
                /\ nextRevId' = nextRevId + 1
           ELSE UNCHANGED <<revisions, nextRevId>>
        /\ Put(p, [r EXCEPT !.page = page, !.pc = "upd_write"])
  /\ UNCHANGED <<pages, nextPageId, otherVars, shareVars>>

\* Handlers.CreatePage of the API: the title must not be empty (it is not
\* trimmed); the slug is the one sent, as sent, or Slugify(title) when none
\* is sent; then the check that no page has the slug.
StartApiCreatePage(p, slug, title, content) ==
  /\ Free(p)
  /\ calls < MaxCalls
  /\ calls' = calls + 1
  /\ nextPageId <= MaxPageId
  /\ LET s == IF slug = <<>> THEN Slugify(title) ELSE slug
         r == [Begin("ApiCreatePage") EXCEPT !.slug = s, !.title = title,
                                             !.content = content]
     IN IF title = <<>> THEN Put(p, Return(r, "ErrBadRequest"))
        ELSE IF GetPageBySlug(pages, s) # 0 THEN Put(p, Return(r, "ErrPageExists"))
        ELSE Put(p, [r EXCEPT !.pc = "api_insert"])
  /\ UNCHANGED <<storeVars, slugVars, shareVars, limiterVars>>

\* db.CreatePage of the API's page: no parent, published; the handler then
\* answers 201 with the page.  It writes no revision.
ApiCreateInsert(p) ==
  /\ req[p].pc = "api_insert"
  /\ LET r == req[p]
         row == [slug |-> r.slug, title |-> r.title, content |-> r.content,
                 parent |-> NoParent, published |-> TRUE]
     IN IF SlugTaken(pages, r.slug, 0)
        THEN /\ Put(p, Return(r, "ErrInternal"))
             /\ UNCHANGED <<pages, nextPageId>>
        ELSE /\ pages' = InsertPage(pages, nextPageId, row)
             /\ nextPageId' = nextPageId + 1
             /\ Put(p, Return([r EXCEPT !.pageID = nextPageId, !.page = row], ""))
  /\ UNCHANGED <<revisions, nextRevId, otherVars, shareVars>>

\* ------------------------------------------------------------------------
\* Share links: Handlers.CreateShare, RevokeShare, DeleteShare,
\* ViewSharedPage
\* ------------------------------------------------------------------------

\* CreateShare: "Verify page exists", then the options of the form; a
\* limit that is not a positive number is no limit, as is a duration that
\* is not positive.
StartCreateShare(p, pageID, includeChildren, maxViews, maxIPs, expires) ==
  /\ Free(p)
  /\ nextLinkId <= MaxLinkId
  /\ LET r == [Begin("CreateShare") EXCEPT
                 !.pageID = pageID,
                 !.link = [NoLink EXCEPT
                             !.page = pageID,
                             !.includeChildren = includeChildren,
                             !.maxViews = IF maxViews > 0 THEN maxViews ELSE 0,
                             !.maxIPs = IF maxIPs > 0 THEN maxIPs ELSE 0,
                             !.expiresAt = IF expires THEN "later" ELSE "never"]]
     IN IF pageID \notin DOMAIN pages THEN Put(p, Return(r, "ErrPageNotFound"))
        ELSE Put(p, [r EXCEPT !.pc = "share_insert"])
  /\ UNCHANGED <<storeVars, otherVars, shareVars>>

\* db.CreateShareLink: the INSERT fails without the page's row.
ShareInsert(p) ==
  /\ req[p].pc = "share_insert"
  /\ LET r == req[p]
     IN IF r.link.page \notin DOMAIN pages
        THEN /\ Put(p, Return(r, "ErrInternal"))
             /\ UNCHANGED <<shareLinks, nextLinkId>>
        ELSE /\ shareLinks' = [l \in DOMAIN shareLinks \cup {nextLinkId} |->
                                 IF l = nextLinkId THEN r.link ELSE shareLinks[l]]
             /\ nextLinkId' = nextLinkId + 1
             /\ Put(p, Return([r EXCEPT !.linkID = nextLinkId], ""))
  /\ UNCHANGED <<storeVars, otherVars, pageTags, shareAccess, nextAccessId>>

\* UPDATE share_links SET is_revoked = NOT is_revoked.
RevokeShareToggle(linkID) ==
  /\ linkID \in DOMAIN shareLinks
  /\ shareLinks' = [shareLinks EXCEPT ![linkID].revoked = ~@]
  /\ UNCHANGED <<storeVars, req, otherVars, pageTags, nextLinkId, shareAccess, nextAccessId>>

\* RevokeShare by its creator or an admin: GetShareLinkByID, then
\* UPDATE share_links SET is_revoked = 1.
RevokeShare(linkID) ==
  /\ linkID \in DOMAIN shareLinks
  /\ ~shareLinks[linkID].revoked
  /\ shareLinks' = [shareLinks EXCEPT ![linkID].revoked = TRUE]
  /\ UNCHANGED <<storeVars, req, otherVars, pageTags, nextLinkId, shareAccess, nextAccessId>>

\* DeleteShare by its creator or an admin: DELETE FROM share_links, with
\* the cascade to its access rows.
DeleteShare(linkID) ==
  /\ linkID \in DOMAIN shareLinks
  /\ shareLinks' = [l \in DOMAIN shareLinks \ {linkID} |-> shareLinks[l]]
  /\ shareAccess' = CascadeAccess(shareAccess, shareLinks')
  /\ UNCHANGED <<storeVars, req, otherVars, pageTags, nextLinkId, nextAccessId>>

\* time.Now() passes the expires_at of a link.
TimePasses(linkID) ==
  /\ linkID \in DOMAIN shareLinks
  /\ shareLinks[linkID].expiresAt = "later"
  /\ shareLinks' = [shareLinks EXCEPT ![linkID].expiresAt = "past"]
  /\ UNCHANGED <<storeVars, req, otherVars, pageTags, nextLinkId, shareAccess, nextAccessId>>

\* ShareLink.IsExpired
IsExpired(link) == link.expiresAt = "past"

\* The view limit compared with > in place of >=.
IsViewLimitPassed(link) == link.maxViews # 0 /\ link.viewCount > link.maxViews

\* ShareLink.IsViewLimitReached
IsViewLimitReached(link) == link.maxViews # 0 /\ link.viewCount >= link.maxViews

\* GetShareLinkUniqueIPCount: COUNT(DISTINCT ip_address) of the link.
GetShareLinkUniqueIPCount(sa, linkID) ==
  Cardinality({sa[a].ip : a \in {x \in DOMAIN sa : sa[x].link = linkID}})

\* COUNT(*) > 0 of the link's rows, whatever their ip.
HasAnyAccessedShareLink(sa, linkID, ip) ==
  \E a \in DOMAIN sa : sa[a].link = linkID

\* HasIPAccessedShareLink: COUNT(*) > 0 of the link's rows with the ip.
HasIPAccessedShareLink(sa, linkID, ip) ==
  \E a \in DOMAIN sa : sa[a].link = linkID /\ sa[a].ip = ip

\* ViewSharedPage up to the IP limit: GetShareLinkByToken (the token
\* stands for the link it hashes to; the query joins the link's page), then
\* the checks on the link as read.
StartViewSharedPage(p, token, ip, childSlug) ==
  /\ Free(p)
  /\ nextAccessId <= MaxAccessId
  /\ LET r == [Begin("ViewSharedPage") EXCEPT !.linkID = token, !.ip = ip,
                                              !.slug = childSlug]
     IN IF token \notin DOMAIN shareLinks \/ shareLinks[token].page \notin DOMAIN pages
        THEN Put(p, Return(r, "ShareLinkNotFound"))
        ELSE LET link == shareLinks[token]
                 found == [r EXCEPT !.link = link, !.linkSlug = pages[link.page].slug]
             IN IF link.revoked THEN Put(p, Return(found, "ShareLinkRevoked"))
                ELSE IF IsExpired(link) THEN Put(p, Return(found, "ShareLinkExpired"))
                ELSE IF IsViewLimitReached(link)
                THEN Put(p, Return(found, "ViewLimitReached"))
                ELSE Put(p, [found EXCEPT
                               !.pc = IF link.maxIPs # 0 THEN "view_ip" ELSE "view_page"])
  /\ UNCHANGED <<storeVars, otherVars, shareVars>>

\* The IP check with the refused address written to the access log.
ViewCheckIPLogged(p) ==
  /\ req[p].pc = "view_ip"
  /\ LET r == req[p]
     IN IF /\ ~HasIPAccessedShareLink(shareAccess, r.linkID, r.ip)
           /\ GetShareLinkUniqueIPCount(shareAccess, r.linkID) >= r.link.maxIPs
        THEN /\ Put(p, Return(r, "IPLimitReached"))
             /\ shareAccess' = [a \in DOMAIN shareAccess \cup {nextAccessId} |->
                                  IF a = nextAccessId THEN [link |-> r.linkID, ip |-> r.ip]
                                  ELSE shareAccess[a]]
             /\ nextAccessId' = nextAccessId + 1
        ELSE /\ Put(p, [r EXCEPT !.pc = "view_page"])
             /\ UNCHANGED <<shareAccess, nextAccessId>>
  /\ UNCHANGED <<storeVars, otherVars, pageTags, shareLinks, nextLinkId>>

\* "Check IP limit": a new IP is refused once the link has max_ips of them.
ViewCheckIP(p) ==
  /\ req[p].pc = "view_ip"
  /\ LET r == req[p]
     IN IF /\ ~HasIPAccessedShareLink(shareAccess, r.linkID, r.ip)
           /\ GetShareLinkUniqueIPCount(shareAccess, r.linkID) >= r.link.maxIPs
        THEN Put(p, Return(r, "IPLimitReached"))
        ELSE Put(p, [r EXCEPT !.pc = "view_page"])
  /\ UNCHANGED <<storeVars, otherVars, shareVars>>

\* The page to serve: the child slug of the URL when there is one and the
\* link includes children, after IsPageDescendant; the link's page
\* otherwise.  Then GetPage of its slug.
ViewResolvePage(p) ==
  /\ req[p].pc = "view_page"
  /\ LET r == req[p]
         child == r.slug # <<>> /\ r.link.includeChildren
         d == IsPageDescendant(pages, r.link.page, r.slug)
         page == GetPageBySlug(pages, IF child THEN r.slug ELSE r.linkSlug)
     IN IF child /\ ~d.ends THEN Put(p, [r EXCEPT !.pc = "hung"])
        ELSE IF child /\ ~d.found THEN Put(p, Return(r, "PageNotAccessible"))
        ELSE IF page = 0 THEN Put(p, Return(r, "ErrPageNotFound"))
        ELSE Put(p, [r EXCEPT !.pageID = page, !.page = pages[page],
                              !.pc = "view_record"])
  /\ UNCHANGED <<storeVars, otherVars, shareVars>>

\* "Record the access": db.RecordShareAccess; its error (no row of the
\* link any more) is dropped.
ViewRecord(p) ==
  /\ req[p].pc = "view_record"
  /\ LET r == req[p]
     IN IF r.linkID \in DOMAIN shareLinks
        THEN /\ shareAccess' = [a \in DOMAIN shareAccess \cup {nextAccessId} |->
                                  IF a = nextAccessId THEN [link |-> r.linkID, ip |-> r.ip]
                                  ELSE shareAccess[a]]
             /\ nextAccessId' = nextAccessId + 1
        ELSE UNCHANGED <<shareAccess, nextAccessId>>
  /\ Put(p, [req[p] EXCEPT !.pc = "view_count"])
  /\ UNCHANGED <<storeVars, otherVars, pageTags, shareLinks, nextLinkId>>

\* db.IncrementShareLinkViewCount: UPDATE share_links SET view_count =
\* view_count + 1; its error is dropped.  Then the page is rendered.
ViewIncrement(p) ==
  /\ req[p].pc = "view_count"
  /\ shareLinks' = [l \in DOMAIN shareLinks |->
                      IF l = req[p].linkID
                      THEN [shareLinks[l] EXCEPT !.viewCount = @ + 1]
                      ELSE shareLinks[l]]
  /\ Put(p, Return(req[p], ""))
  /\ UNCHANGED <<storeVars, otherVars, pageTags, nextLinkId, shareAccess, nextAccessId>>

\* ------------------------------------------------------------------------
\* ShareMiddleware and RecordShareAccess (requests with ?token=)
\* ------------------------------------------------------------------------

\* validateShareLink: revoked, expired, view limit, then the IP limit.
validateShareLink(link, sa, linkID, ip) ==
  /\ ~link.revoked
  /\ ~IsExpired(link)
  /\ ~IsViewLimitReached(link)
  /\ link.maxIPs # 0
       => \/ HasIPAccessedShareLink(sa, linkID, ip)
          \/ GetShareLinkUniqueIPCount(sa, linkID) < link.maxIPs

\* ShareMiddleware: GetShareLinkByToken; without a link the request goes on
\* with no share context, with one the context holds the link as read and
\* IsValid.  Then next(c): the handler runs.
ShareMiddleware(p, token, ip) ==
  /\ Free(p)
  /\ nextAccessId <= MaxAccessId
  /\ LET r == [Begin("ShareMiddleware") EXCEPT !.linkID = token, !.ip = ip, !.pc = "handler"]
     IN IF token \notin DOMAIN shareLinks \/ shareLinks[token].page \notin DOMAIN pages
        THEN Put(p, [r EXCEPT !.linkID = 0])
        ELSE Put(p, [r EXCEPT
                       !.link = shareLinks[token],
                       !.valid = validateShareLink(shareLinks[token], shareAccess, token, ip)])
  /\ UNCHANGED <<storeVars, otherVars, shareVars>>

\* The handler calls RecordShareAccess: nothing to do without a valid share
\* context or when shareAccessedContextKey is set; otherwise the INSERT
\* is next.
RecordShareAccess(p) ==
  /\ req[p].pc = "handler"
  /\ req[p].i < MaxRecordCalls
  /\ nextAccessId <= MaxAccessId
  /\ LET r == [req[p] EXCEPT !.i = @ + 1]
     IN IF r.linkID = 0 \/ ~r.valid \/ r.accessed
        THEN Put(p, [r EXCEPT !.ret = ""])
        ELSE Put(p, [r EXCEPT !.pc = "rec_insert"])
  /\ UNCHANGED <<storeVars, otherVars, shareVars>>

\* db.RecordShareAccess: the INSERT; without the link's row it fails and
\* RecordShareAccess returns the error.
RecordInsert(p) ==
  /\ req[p].pc = "rec_insert"
  /\ LET r == req[p]
     IN IF r.linkID \in DOMAIN shareLinks
        THEN /\ shareAccess' = [a \in DOMAIN shareAccess \cup {nextAccessId} |->
                                  IF a = nextAccessId THEN [link |-> r.linkID, ip |-> r.ip]
                                  ELSE shareAccess[a]]
             /\ nextAccessId' = nextAccessId + 1
             /\ Put(p, [r EXCEPT !.pc = "rec_count"])
        ELSE /\ UNCHANGED <<shareAccess, nextAccessId>>
             /\ Put(p, [r EXCEPT !.pc = "handler", !.ret = "err"])
  /\ UNCHANGED <<storeVars, otherVars, pageTags, shareLinks, nextLinkId>>

\* db.IncrementShareLinkViewCount succeeds: then "Mark as recorded".
RecordIncrement(p) ==
  /\ req[p].pc = "rec_count"
  /\ shareLinks' = [l \in DOMAIN shareLinks |->
                      IF l = req[p].linkID
                      THEN [shareLinks[l] EXCEPT !.viewCount = @ + 1]
                      ELSE shareLinks[l]]
  /\ Put(p, [req[p] EXCEPT !.accessed = TRUE, !.pc = "handler", !.ret = ""])
  /\ UNCHANGED <<storeVars, otherVars, pageTags, nextLinkId, shareAccess, nextAccessId>>

\* A statement of RecordShareAccess returns an error (the database is
\* locked past the busy timeout, an I/O error): RecordShareAccess logs it
\* and returns it, before "Mark as recorded".
RecordStatementFails(p) ==
  /\ req[p].pc \in {"rec_insert", "rec_count"}
  /\ Put(p, [req[p] EXCEPT !.pc = "handler", !.ret = "err"])
  /\ UNCHANGED <<storeVars, otherVars, shareVars>>

\* The handler answers.
HandlerDone(p) ==
  /\ req[p].pc = "handler"
  /\ Put(p, [req[p] EXCEPT !.pc = "done"])
  /\ UNCHANGED <<storeVars, otherVars, shareVars>>

\* ------------------------------------------------------------------------
\* RateLimiter and LoginRateLimiter (in memory, each under its mutex)
\* ------------------------------------------------------------------------

\* Client identifiers (c.RealIP()).
Clients == {"ip1", "ip2"}

\* The clock advances.
Tick ==
  /\ now < MaxTime
  /\ now' = now + 1
  /\ UNCHANGED <<storeVars, shareVars, req, calls, slugVars, rlRequests, rlPassed,
                 loginAttempts>>

\* RateLimiter.allow as a function: the entry it leaves and its answer.
allow(requests, clientID, t) ==
  IF clientID \notin DOMAIN requests \/ t > requests[clientID].expiresAt
  THEN [requests |-> [c \in DOMAIN requests \cup {clientID} |->
                        IF c = clientID THEN [count |-> 1, expiresAt |-> t + window]
                        ELSE requests[c]],
        ok |-> TRUE]
  ELSE IF requests[clientID].count >= maxRequests
  THEN [requests |-> requests, ok |-> FALSE]
  ELSE [requests |-> [requests EXCEPT ![clientID].count = @ + 1], ok |-> TRUE]

\* RateLimiter.Middleware: one request of a client; next(c) runs when allow
\* says so, counted in rlPassed at the instant of the request.
RateLimiterMiddleware(clientID) ==
  /\ LET a == allow(rlRequests, clientID, now)
     IN /\ rlRequests' = a.requests
        /\ rlPassed' = IF a.ok THEN [rlPassed EXCEPT ![clientID][now] = @ + 1]
                       ELSE rlPassed
  /\ UNCHANGED <<storeVars, shareVars, req, calls, slugVars, now, loginAttempts>>

\* RateLimiter.cleanup: the entries past their expiresAt are deleted.
RateLimiterCleanup ==
  /\ \E c \in DOMAIN rlRequests : now > rlRequests[c].expiresAt
  /\ rlRequests' = [c \in {x \in DOMAIN rlRequests : ~(now > rlRequests[x].expiresAt)} |->
                      rlRequests[c]]
  /\ UNCHANGED <<storeVars, shareVars, req, calls, slugVars, now, rlPassed, loginAttempts>>

\* The lockout of an identifier is running: lockedAt is set and
\* lockedAt + lockoutTime - now > 0.
LockedOut(attempts, identifier, t) ==
  /\ identifier \in DOMAIN attempts
  /\ attempts[identifier].lockedAt # 0
  /\ attempts[identifier].lockedAt + lockoutTime - t > 0

\* LoginRateLimiter.Check: the table it leaves.
Check(attempts, identifier, t) ==
  IF identifier \notin DOMAIN attempts
  THEN [a \in DOMAIN attempts \cup {identifier} |->
          IF a = identifier THEN [count |-> 0, lockedAt |-> 0, lastTry |-> t]
          ELSE attempts[a]]
  ELSE IF attempts[identifier].lockedAt # 0 /\ ~LockedOut(attempts, identifier, t)
  THEN [attempts EXCEPT ![identifier].count = 0, ![identifier].lockedAt = 0]
  ELSE attempts

\* LoginRateLimiter.RecordFailure
RecordFailure(attempts, identifier, t) ==
  IF identifier \notin DOMAIN attempts
  THEN [a \in DOMAIN attempts \cup {identifier} |->
          IF a = identifier THEN [count |-> 1, lockedAt |-> 0, lastTry |-> t]
          ELSE attempts[a]]
  ELSE LET n == attempts[identifier].count + 1
       IN [attempts EXCEPT ![identifier].count = n,
                           ![identifier].lastTry = t,
                           ![identifier].lockedAt = IF n >= maxAttempts THEN t ELSE @]

\* LoginRateLimiter.RecordSuccess
RecordSuccess(attempts, identifier) ==
  [a \in DOMAIN attempts \ {identifier} |-> attempts[a]]

\* Handlers.Login up to the credential check: loginLimiter.Check refuses
\* the request during a lockout.
StartLogin(p, clientIP) ==
  /\ Free(p)
  /\ LET r == [Begin("Login") EXCEPT !.ip = clientIP]
     IN IF LockedOut(loginAttempts, clientIP, now)
        THEN Put(p, Return(r, "TooManyRequests"))
        ELSE Put(p, [r EXCEPT !.pc = "login_auth"])
  /\ loginAttempts' = Check(loginAttempts, clientIP, now)
  /\ UNCHANGED <<storeVars, shareVars, calls, slugVars, now, rlRequests, rlPassed>>

\* authService.Authenticate: the credential check, with its outcome.
LoginAuthenticate(p, ok) ==
  /\ req[p].pc = "login_auth"
  /\ Put(p, [req[p] EXCEPT !.pc = IF ok THEN "login_success" ELSE "login_failure"])
  /\ UNCHANGED <<storeVars, otherVars, shareVars>>

\* "Record failed attempt", then the 401 answer.
LoginRecordFailure(p) ==
  /\ req[p].pc = "login_failure"
  /\ loginAttempts' = RecordFailure(loginAttempts, req[p].ip, now)
  /\ Put(p, Return(req[p], "Unauthorized"))
  /\ UNCHANGED <<storeVars, shareVars, calls, slugVars, now, rlRequests, rlPassed>>

\* "Clear rate limit on success", then the session.
LoginRecordSuccess(p) ==
  /\ req[p].pc = "login_success"
  /\ loginAttempts' = RecordSuccess(loginAttempts, req[p].ip)
  /\ Put(p, Return(req[p], ""))
  /\ UNCHANGED <<storeVars, shareVars, calls, slugVars, now, rlRequests, rlPassed>>

\* LoginRateLimiter.cleanup: entries not used for twice the lockout go.
LoginCleanup ==
  /\ \E a \in DOMAIN loginAttempts : now - loginAttempts[a].lastTry > lockoutTime * 2
  /\ loginAttempts' = [a \in {x \in DOMAIN loginAttempts :
                                ~(now - loginAttempts[x].lastTry > lockoutTime * 2)} |->
                         loginAttempts[a]]
  /\ UNCHANGED <<storeVars, shareVars, req, calls, slugVars, now, rlRequests, rlPassed>>

\* ------------------------------------------------------------------------
\* Cancellation
\* ------------------------------------------------------------------------

\* The request context is cancelled (client gone, timeout): the statement
\* the service call is at returns the context's error and the call returns
\* it wrapped; statements already executed stay executed.
MidCall == {"ensure_get", "ensure_insert", "create_insert", "upd_get", "upd_check",
            "upd_descendants", "upd_cascade", "upd_write", "hung"}

Cancel(p) ==
  /\ req[p].pc \in MidCall
  /\ Put(p, Return(req[p], "ErrInternal"))
  /\ UNCHANGED <<storeVars, otherVars, shareVars>>

\* ------------------------------------------------------------------------
\* Inputs and specifications
\* ------------------------------------------------------------------------

\* The handler has answered: the slot is free for the next request.
Respond(p) ==
  /\ req[p].pc = "done"
  /\ Put(p, IdleReq)
  /\ UNCHANGED <<storeVars, otherVars, shareVars>>

PageIds == 1..MaxPageId

RevIds == 1..MaxRevId

\* Outside SlugSpec no raw name is being normalized.
SlugIdle ==
  /\ sPc = "idle"
  /\ sInput = <<>>
  /\ sOnce = <<>>
  /\ sTwice = <<>>

StoreInit ==
  /\ pages = <<>>
  /\ nextPageId = 1
  /\ revisions = <<>>
  /\ nextRevId = 1
  /\ req = [p \in Slots |-> IdleReq]
  /\ calls = 0
  /\ pageTags = {}
  /\ shareLinks = <<>>
  /\ nextLinkId = 1
  /\ shareAccess = <<>>
  /\ nextAccessId = 1
  /\ now = 1
  /\ rlRequests = <<>>
  /\ rlPassed = [c \in Clients |-> [t \in 1..MaxTime |-> 0]]
  /\ loginAttempts = <<>>

Init == StoreInit /\ SlugIdle

\* --- Spec: the page hierarchy, one request at a time ----------------------

\* Raw slugs of CreatePage: none (slug from the title), plain, upper case,
\* nested, one that normalizes to nothing, and one nested two levels.
RawSlugs == {<<>>, <<"a">>, <<"b">>, <<"A">>, <<"a", "/", "b">>, <<"b", "/", "a">>, <<"!">>,
             <<"a", "/", "b", "/", "a">>}

\* Raw titles: blank, and a title (which doubles as a slug source).
RawTitles == {<<" ">>, <<"a">>}

\* The slug input of an update: nil, or a raw slug; the last two are nested
\* two levels under "a".
UpdateSlugs == {NilStr, <<"a">>, <<"b">>, <<"a", "/", "b">>, <<"b", "/", "a">>,
                <<"a", "/", "b", "/", "a">>, <<"a", "/", "a", "/", "b">>}

Next ==
  \/ \E rawSlug \in RawSlugs, rawTitle \in RawTitles :
       StartCreatePage(1, rawSlug, rawTitle, "c1")
  \/ EnsureGet(1)
  \/ EnsureInsert(1)
  \/ CreateInsert(1)
  \/ CreateInitialRevision(1)
  \/ \E pageID \in PageIds, rawSlug \in UpdateSlugs, rawTitle \in {NilStr, <<" ">>} :
       StartUpdatePage(1, pageID, rawSlug, rawTitle, NilContent, NilTags)
  \/ UpdateCheckSlug(1)
  \/ UpdateGetDescendants(1)
  \/ UpdateCascadeStep(1)
  \/ UpdateSaveRevision(1)
  \/ UpdateWrite(1)
  \/ \E pageID \in PageIds : StartDeletePage(1, pageID)
  \/ DeleteCollect(1)
  \/ DeletePages(1)
  \/ DeletePagesExec(1)
  \/ DeletePagesFail(1)
  \/ DeletePagesCommit(1)
  \/ Cancel(1)
  \/ Respond(1)

Spec == Init /\ [][Next]_vars

\* --- RevSpec: the revision ledger of pages without hierarchy --------------

Contents == {"c1", "c2"}

RevNext ==
  \/ \E content \in Contents : StartCreatePage(1, <<"a">>, <<"a">>, content)
  \/ CreateInsert(1)
  \/ CreateInitialRevision(1)
  \/ \E pageID \in PageIds, rawSlug \in {NilStr, <<"a">>, <<"b">>},
        rawTitle \in {NilStr, <<" ">>, <<"x">>}, content \in Contents \cup {NilContent} :
       StartUpdatePage(1, pageID, rawSlug, rawTitle, content, NilTags)
  \/ UpdateGetPage(1)
  \/ UpdateCheckSlug(1)
  \/ UpdateGetDescendants(1)
  \/ UpdateSaveRevision(1)
  \/ UpdateWrite(1)
  \/ \E revisionID \in RevIds : StartRevertToRevision(1, revisionID)
  \/ \E slugParam \in {<<"a">>, <<"B">>}, title \in {NilStr, <<"x">>},
        content \in Contents \cup {NilContent} :
       StartApiUpdatePage(1, slugParam, title, content)
  \/ ApiSaveRevision(1)
  \/ \E slug \in {<<>>, <<"b">>}, title \in {<<>>, <<"b">>} :
       StartApiCreatePage(1, slug, title, "c1")
  \/ ApiCreateInsert(1)
  \/ Respond(1)

RevSpec == Init /\ [][RevNext]_vars

\* --- ConcSpec: CreatePage requests of two slots, interleaved --------------

ConcNext ==
  \E p \in Slots :
    \/ \E rawSlug \in {<<"a">>, <<"A">>, <<"a", "/", "b">>} :
         StartCreatePage(p, rawSlug, <<"a">>, "c1")
    \/ EnsureGet(p)
    \/ EnsureInsert(p)
    \/ CreateInsert(p)
    \/ CreateInitialRevision(p)
    \/ Respond(p)

ConcSpec == Init /\ [][ConcNext]_vars

\* --- ShareSpec: share links on pages "a" and "a/b", one request at a time

\* Client addresses.
IPs == {"ip1", "ip2"}

\* The options of a new link: <<include_children, max_views, max_ips,
\* expires_in given>>.
ShareOptions == {<<FALSE, 0, 0, FALSE>>, <<FALSE, 2, 0, FALSE>>, <<TRUE, 0, 1, FALSE>>,
                 <<FALSE, 0, 0, TRUE>>}

\* The path after the token: none, the child page, the root page.
ChildSlugs == {<<>>, <<"a", "/", "b">>, <<"a">>}

ShareNext ==
  \/ StartCreatePage(1, <<"a", "/", "b">>, <<"a">>, "c1")
  \/ EnsureGet(1)
  \/ EnsureInsert(1)
  \/ CreateInsert(1)
  \/ CreateInitialRevision(1)
  \/ \E pageID \in PageIds, o \in ShareOptions :
       StartCreateShare(1, pageID, o[1], o[2], o[3], o[4])
  \/ ShareInsert(1)
  \/ \E linkID \in 1..MaxLinkId : Free(1) /\ RevokeShare(linkID)
  \/ \E linkID \in 1..MaxLinkId : Free(1) /\ TimePasses(linkID)
  \/ \E token \in 1..MaxLinkId, ip \in IPs, childSlug \in ChildSlugs :
       StartViewSharedPage(1, token, ip, childSlug)
  \/ ViewCheckIP(1)
  \/ ViewResolvePage(1)
  \/ ViewRecord(1)
  \/ ViewIncrement(1)
  \/ Respond(1)

ShareSpec == Init /\ [][ShareNext]_vars

\* --- DelSpec: a tree with revisions, tags, links and accesses, deleted ----

\* The path after the token: none, the page two levels down, the root page.
TreeSlugs == {<<>>, <<"a", "/", "b", "/", "a">>, <<"a">>}

DelNext ==
  \/ StartCreatePage(1, <<"a", "/", "b", "/", "a">>, <<"a">>, "c1")
  \/ EnsureGet(1)
  \/ EnsureInsert(1)
  \/ CreateInsert(1)
  \/ CreateInitialRevision(1)
  \/ \E pageID \in PageIds :
       StartUpdatePage(1, pageID, NilStr, NilStr, NilContent, {<<"T">>, <<" ">>})
  \/ UpdateSaveRevision(1)
  \/ UpdateWrite(1)
  \/ UpdateSetTags(1)
  \/ \E pageID \in PageIds : StartCreateShare(1, pageID, TRUE, 0, 0, FALSE)
  \/ ShareInsert(1)
  \/ \E token \in 1..MaxLinkId, childSlug \in TreeSlugs :
       StartViewSharedPage(1, token, "ip1", childSlug)
  \/ ViewResolvePage(1)
  \/ ViewRecord(1)
  \/ ViewIncrement(1)
  \/ \E linkID \in 1..MaxLinkId : Free(1) /\ DeleteShare(linkID)
  \/ \E pageID \in PageIds : StartDeletePage(1, pageID)
  \/ DeleteCollect(1)
  \/ DeletePages(1)
  \/ DeletePagesExec(1)
  \/ DeletePagesFail(1)
  \/ DeletePagesCommit(1)
  \/ Respond(1)

DelSpec == Init /\ [][DelNext]_vars

\* --- LinkSpec: the first link on page "a", viewed by two requests
\* --- interleaved, revoked, expiring ----------------------------------------

\* The options of a new link: <<include_children, max_views, max_ips,
\* expires_in given>>.
LinkOptions == {<<FALSE, 1, 0, FALSE>>, <<FALSE, 0, 0, TRUE>>}

LinkNext ==
  \/ StartCreatePage(1, <<"a">>, <<"a">>, "c1")
  \/ CreateInsert(1)
  \/ CreateInitialRevision(1)
  \/ \E pageID \in PageIds, o \in LinkOptions :
       StartCreateShare(1, pageID, o[1], o[2], o[3], o[4])
  \/ ShareInsert(1)
  \/ RevokeShare(1)
  \/ TimePasses(1)
  \/ \E p \in Slots :
       \/ StartViewSharedPage(p, 1, "ip1", <<>>)
       \/ ViewResolvePage(p)
       \/ ViewRecord(p)
       \/ ViewIncrement(p)
       \/ Respond(p)

LinkSpec == Init /\ [][LinkNext]_vars

\* --- RecSpec: requests with a share token whose handler calls
\* --- RecordShareAccess, one request at a time -------------------------------

RecNext ==
  \/ StartCreatePage(1, <<"a">>, <<"a">>, "c1")
  \/ CreateInsert(1)
  \/ CreateInitialRevision(1)
  \/ \E pageID \in PageIds, o \in {<<FALSE, 0, 0, FALSE>>, <<FALSE, 0, 1, FALSE>>} :
       StartCreateShare(1, pageID, o[1], o[2], o[3], o[4])
  \/ ShareInsert(1)
  \/ Free(1) /\ RevokeShare(1)
  \/ \E token \in 1..MaxLinkId, ip \in IPs : ShareMiddleware(1, token, ip)
  \/ RecordShareAccess(1)
  \/ RecordInsert(1)
  \/ RecordIncrement(1)
  \/ RecordStatementFails(1)
  \/ HandlerDone(1)
  \/ Respond(1)

RecSpec == Init /\ [][RecNext]_vars

\* --- RateSpec: the requests of two clients through the RateLimiter --------

RateNext ==
  \/ Tick
  \/ \E clientID \in Clients : RateLimiterMiddleware(clientID)
  \/ RateLimiterCleanup

RateSpec == Init /\ [][RateNext]_vars

\* --- LoginSpec: login requests of one address in two slots, interleaved ---

LoginNext ==
  \/ Tick
  \/ LoginCleanup
  \/ \E p \in Slots :
       \/ StartLogin(p, "ip1")
       \/ \E ok \in BOOLEAN : LoginAuthenticate(p, ok)
       \/ LoginRecordFailure(p)
       \/ LoginRecordSuccess(p)
       \/ Respond(p)

LoginSpec == Init /\ [][LoginNext]_vars

\* ------------------------------------------------------------------------
\* SlugSpec: Slugify applied to every bounded raw name, then to its result
\* ------------------------------------------------------------------------

SlugInit ==
  /\ StoreInit
  /\ sPc = "raw"
  /\ sInput \in StringsUpTo(RawChars, MaxRawLen)
  /\ sOnce = <<>>
  /\ sTwice = <<>>

SlugifyOnce ==
  /\ sPc = "raw"
  /\ sOnce' = Slugify(sInput)
  /\ sPc' = "once"
  /\ UNCHANGED <<sInput, sTwice, storeVars, req, calls, shareVars, limiterVars>>

SlugifyTwice ==
  /\ sPc = "once"
  /\ sTwice' = Slugify(sOnce)
  /\ sPc' = "twice"
  /\ UNCHANGED <<sInput, sOnce, storeVars, req, calls, shareVars, limiterVars>>

SlugNext == SlugifyOnce \/ SlugifyTwice

SlugSpec == SlugInit /\ [][SlugNext]_vars

\* ------------------------------------------------------------------------
\* Properties
\* ------------------------------------------------------------------------

\* The call of slot p has returned without error.
Succeeded(p, op) == req[p].op = op /\ req[p].pc = "done" /\ req[p].err = ""

\* The ids of the descendants of id in the table pg, by parent_id links.
Descendants(pg, id) ==
  LET rows == GetAllDescendants(pg, id).rows
  IN {rows[k].id : k \in 1..Len(rows)}

\* The pages a rename of slot p moves: the page itself and the descendants
\* it had when the call began whose slug starts with oldSlug + "/".
RenameFamily(p) ==
  {req[p].pageID} \cup
  {d \in Descendants(req[p].pre, req[p].pageID) :
     HasPrefix(req[p].pre[d].slug, req[p].oldSlug \o <<"/">>)}

\* The slug the rename of slot p gives page q of its family.
RenamedSlug(p, q) == NewChildSlug(req[p].slug, req[p].oldSlug, req[p].pre[q].slug)

\* A slug-changing UpdatePage is under way in slot p, or has returned.
Renaming(p) ==
  /\ req[p].op = "UpdatePage"
  /\ req[p].pc \notin {"idle", "upd_check"}
  /\ req[p].oldSlug # <<>>

\* C1: a rename cascade is all-or-nothing: in every state during the call,
\* and in the state a failed or cancelled call leaves, the page and all its
\* descendants carry the old slug prefix, or all carry the new one.
CascadeAllOrNothing ==
  \A p \in Slots :
    Renaming(p) =>
      LET fam == RenameFamily(p) \cap DOMAIN pages
      IN \/ \A q \in fam : pages[q].slug = req[p].pre[q].slug
         \/ \A q \in fam : pages[q].slug = RenamedSlug(p, q)

RECURSIVE ReachesUp(_, _, _, _)
\* Page `to` is met when following parent_id from page `from`, in at most
\* `fuel` steps.
ReachesUp(pg, from, to, fuel) ==
  IF fuel = 0 \/ from \notin DOMAIN pg \/ pg[from].parent = NoParent THEN FALSE
  ELSE pg[from].parent = to \/ ReachesUp(pg, pg[from].parent, to, fuel - 1)

\* C2: no page is its own parent and no page is an ancestor of itself via
\* parent_id links.
NoPageIsOwnAncestor ==
  \A q \in DOMAIN pages : ~ReachesUp(pages, q, q, Cardinality(DOMAIN pages))

\* The slug of the parent the slug s calls for: s without its last segment.
ParentPrefix(s) == LET parts == Split(s, "/") IN Join(SubSeq(parts, 1, Len(parts) - 1), "/")

\* Slugs and parent links of the table pg agree.
SlugsFollowParents(pg) ==
  \A q \in DOMAIN pg :
    IF Contains(pg[q].slug, "/")
    THEN /\ pg[q].parent \in DOMAIN pg
         /\ pg[pg[q].parent].slug = ParentPrefix(pg[q].slug)
    ELSE pg[q].parent = NoParent

\* C3: after every successful CreatePage, UpdatePage and whole-subtree
\* deletion on a store where slugs and parent links agree, every page with
\* slug s1/.../sn (n >= 2) has the page with slug s1/.../s(n-1) as its
\* parent and every page without a slash has no parent.
HierarchyPreserved ==
  \A p \in Slots :
    (/\ req[p].pc = "done"
     /\ req[p].err = ""
     /\ req[p].op \in {"CreatePage", "UpdatePage", "DeletePage"}
     /\ SlugsFollowParents(req[p].pre))
    => SlugsFollowParents(pages)

\* C4: For every input string s, Slugify(Slugify(s)) equals Slugify(s).
SlugifyIdempotent == sPc = "twice" => sTwice = sOnce

\* The proper ancestor prefixes of a slug: s1, s1/s2, ..., s1/.../s(n-1).
AncestorPrefixes(s) == {ParentSlug(s, k) : k \in 1..(Len(Split(s, "/")) - 1)}

\* The descendants a rename of slot p has to move.
MovedDescendants(p) == RenameFamily(p) \ {req[p].pageID}

\* C5: a successful rename of a page from O to a free slug N, when
\* descendants with slugs O/x exist, leaves each such descendant at N/x and
\* no page at O/x, reports exactly one {old: O/x, new: N/x} entry per
\* descendant, and creates every ancestor prefix of N that was missing as a
\* placeholder page.
RenameMovesSubtree ==
  \A p \in Slots :
    (Succeeded(p, "UpdatePage") /\ req[p].oldSlug # <<>> /\ MovedDescendants(p) # {})
    => LET r == req[p]
           D == MovedDescendants(p)
       IN /\ \A d \in D : d \in DOMAIN pages /\ pages[d].slug = RenamedSlug(p, d)
          /\ \A d \in D : GetPageBySlug(pages, r.pre[d].slug) = 0
          /\ Len(r.changes) = Cardinality(D)
          /\ Range(r.changes) =
               {[old |-> r.pre[d].slug, new |-> RenamedSlug(p, d)] : d \in D}
          /\ \A a \in AncestorPrefixes(r.slug) :
               GetPageBySlug(r.pre, a) = 0 =>
                 \E q \in DOMAIN pages \ DOMAIN r.pre :
                   /\ pages[q].slug = a
                   /\ pages[q].content = ""
                   /\ pages[q].published

\* The pages other than the updated one whose stored slug differs between
\* the beginning and the end of the call of slot p.
SlugChanged(p) ==
  {q \in (DOMAIN req[p].pre \cap DOMAIN pages) \ {req[p].pageID} :
     req[p].pre[q].slug # pages[q].slug}

\* C6: after every successful UpdatePage the returned SlugChanges are
\* exactly the (slug before, slug after) pairs of the pages other than the
\* updated page whose stored slug differs before and after the call.
SlugChangesExact ==
  \A p \in Slots :
    Succeeded(p, "UpdatePage")
    => /\ Range(req[p].changes) =
            {[old |-> req[p].pre[q].slug, new |-> pages[q].slug] : q \in SlugChanged(p)}
       /\ Len(req[p].changes) = Cardinality(SlugChanged(p))

\* The revision rows inserted since the call of slot p began.
NewRevisions(p) == DOMAIN revisions \ DOMAIN req[p].preRevs

\* The content the page of slot p's call had when the call began.
ContentBefore(p) == req[p].pre[req[p].pageID].content

\* C7: a successful page update that changes the content appends exactly
\* one revision, holding the content as it was immediately before the
\* update (so never the content the update leaves), also when slug or title
\* change in the same call; an update that does not change the content
\* appends none.
RevisionPerContentChange ==
  \A p \in Slots :
    (/\ req[p].pc = "done"
     /\ req[p].err = ""
     /\ req[p].op \in {"UpdatePage", "ApiUpdatePage"})
    => IF req[p].content # NilContent /\ req[p].content # ContentBefore(p)
       THEN /\ Cardinality(NewRevisions(p)) = 1
            /\ \A v \in NewRevisions(p) :
                 /\ revisions[v].page = req[p].pageID
                 /\ revisions[v].content = ContentBefore(p)
                 /\ revisions[v].content # pages[req[p].pageID].content
       ELSE NewRevisions(p) = {}

TraversalsEndWithoutStart ==
  \A id \in DOMAIN pages :
    /\ GetAllDescendants(pages, id).ends
    /\ \A i \in 1..Len(GetAllDescendants(pages, id).rows) :
         GetAllDescendants(pages, id).rows[i].id # id
    /\ IsPageDescendant(pages, id, pages[id].slug).ends
    /\ ~IsPageDescendant(pages, id, pages[id].slug).found
    /\ \A i \in 1..Len(collectDescendants(pages, id)) :
         collectDescendants(pages, id)[i] \notin {0, id}

\* C10: when two CreatePage requests whose slugs normalize to the same
\* value (ignoring case) ran concurrently, exactly one page has that slug
\* and the request that lost failed with ErrPageExists.
RaceReportsPageExists ==
  (/\ \A p \in Slots : req[p].op = "CreatePage" /\ req[p].pc = "done"
   /\ ToLower(req[1].slug) = ToLower(req[2].slug)
   /\ \A p \in Slots : GetPageBySlug(req[p].pre, req[p].slug) = 0)
  => /\ Cardinality({q \in DOMAIN pages : ToLower(pages[q].slug) = ToLower(req[1].slug)}) = 1
     /\ \E p \in Slots :
          /\ req[p].err = ""
          /\ req[3 - p].err = "ErrPageExists"

\* The immediate-parent prefix of a slug with a slash.
ImmediateParentSlug(slug) == ParentSlug(slug, Len(Split(slug, "/")) - 1)

\* C11: repeated or concurrent ensureParentPages calls for the same slug
\* never create a second page for an ancestor prefix that exists, and each
\* call returns the id of the single page at the immediate-parent prefix:
\* no two pages share a slug, a call that has returned to CreatePage holds
\* the id of the page at the immediate-parent prefix, and while another
\* call for the same slug is under way the INSERT of a prefix never makes
\* the call fail.
EnsureParentPagesIdempotent ==
  /\ [](\A q1, q2 \in DOMAIN pages :
          ToLower(pages[q1].slug) = ToLower(pages[q2].slug) => q1 = q2)
  /\ [](\A p \in Slots :
          (/\ req[p].op = "CreatePage"
           /\ req[p].pc = "create_insert"
           /\ Contains(req[p].slug, "/"))
          => /\ req[p].parentID # NoParent
             /\ req[p].parentID = GetPageBySlug(pages, ImmediateParentSlug(req[p].slug)))
  /\ [][\A p \in Slots :
          (/\ req[p].pc = "ensure_insert"
           /\ req[3 - p].op = "CreatePage"
           /\ req[3 - p].slug = req[p].slug)
          => req'[p].err = ""]_vars

\* The page at the i-th ancestor prefix of slug in table pg (0: none), and
\* NoParent for i = 0.
PrefixPage(pg, slug, i) ==
  IF i = 0 THEN NoParent ELSE GetPageBySlug(pg, ParentSlug(slug, i))

\* C12: a successful CreatePage with slug s1/.../sn leaves, for every i < n,
\* a page at the prefix s1/.../si: the page that was there before the call,
\* unchanged, or else a new published page with empty content whose parent
\* is the page at s1/.../s(i-1) (none for i = 1); the created page's parent
\* is the page at s1/.../s(n-1).
MissingAncestorsCreated ==
  \A p \in Slots :
    Succeeded(p, "CreatePage")
    => LET r == req[p]
           n == Len(Split(r.slug, "/"))
       IN /\ \A i \in 1..(n - 1) :
               LET q == PrefixPage(pages, r.slug, i)
                   was == PrefixPage(r.pre, r.slug, i)
               IN /\ q # 0
                  /\ IF was # 0
                     THEN q = was /\ pages[q] = r.pre[q]
                     ELSE /\ q \notin DOMAIN r.pre
                          /\ pages[q].published
                          /\ pages[q].content = ""
                          /\ pages[q].parent = PrefixPage(pages, r.slug, i - 1)
          /\ r.pageID \in DOMAIN pages
          /\ pages[r.pageID].slug = r.slug
          /\ pages[r.pageID].parent = PrefixPage(pages, r.slug, n - 1)
          /\ Cardinality(DOMAIN pages) =
               Cardinality(DOMAIN r.pre) + 1
               + Cardinality({i \in 1..(n - 1) : PrefixPage(r.pre, r.slug, i) = 0})

\* A page two levels deep was created under an existing first prefix, with
\* its second prefix missing.
CreatedUnderMissingPrefix ==
  \E p \in Slots :
    /\ Succeeded(p, "CreatePage")
    /\ Len(Split(req[p].slug, "/")) = 3
    /\ PrefixPage(req[p].pre, req[p].slug, 1) # 0
    /\ PrefixPage(req[p].pre, req[p].slug, 2) = 0

\* The revision rows of a page.
RevisionsOf(rv, id) == {v \in DOMAIN rv : rv[v].page = id}

\* C13: after every successful page creation, by the service or by the
\* API, the created page has exactly one revision, and that revision has
\* the comment "Initial version".
CreatedWithInitialRevision ==
  \A p \in Slots :
    (/\ req[p].pc = "done"
     /\ req[p].err = ""
     /\ req[p].op \in {"CreatePage", "ApiCreatePage"})
    => /\ Cardinality(RevisionsOf(revisions, req[p].pageID)) = 1
       /\ \A v \in RevisionsOf(revisions, req[p].pageID) :
            revisions[v].comment = Comment("Initial version")

\* The errors of CreatePage's validation.
CreateRefusals == {"ErrInvalidSlug", "ErrInvalidTitle", "ErrPageExists"}

\* C14: CreatePage fails with ErrInvalidSlug when the slug (the title when
\* no slug is given) normalizes to the empty string, otherwise with
\* ErrInvalidTitle when the title is empty after trimming, otherwise with
\* ErrPageExists when a page has the normalized slug ignoring case, and
\* with none of the three otherwise; a call that fails with one of them
\* creates no page, no placeholder ancestor and no revision.
CreatePageRefusals ==
  [][\A p \in Slots, rawSlug \in RawSlugs, rawTitle \in RawTitles, content \in Contents :
       StartCreatePage(p, rawSlug, rawTitle, content)
       => LET given == TrimSpace(rawSlug)
              norm == Slugify(IF given = <<>> THEN rawTitle ELSE given)
              blank == TrimSpace(rawTitle) = <<>>
              taken == \E q \in DOMAIN pages : ToLower(pages[q].slug) = ToLower(norm)
              err == req'[p].err
          IN /\ norm = <<>> => err = "ErrInvalidSlug"
             /\ (norm # <<>> /\ blank) => err = "ErrInvalidTitle"
             /\ (norm # <<>> /\ ~blank /\ taken) => err = "ErrPageExists"
             /\ (norm # <<>> /\ ~blank /\ ~taken) => err \notin CreateRefusals
             /\ err \in CreateRefusals
                  => /\ req'[p].pc = "done"
                     /\ pages' = pages
                     /\ revisions' = revisions
                     /\ nextPageId' = nextPageId
                     /\ nextRevId' = nextRevId]_vars

\* A CreatePage for a slug that a page already has was refused, with the
\* store as it was.
CreateRefusedAsExisting ==
  \E p \in Slots :
    /\ req[p].op = "CreatePage"
    /\ req[p].pc = "done"
    /\ req[p].err = "ErrPageExists"
    /\ pages = req[p].pre
    /\ revisions = req[p].preRevs

\* The store is as it was when the call of slot p began.
StoreAsBefore(p) ==
  /\ pages = req[p].pre
  /\ revisions = req[p].preRevs
  /\ <<pageTags, shareLinks, shareAccess>> = req[p].preShare

\* C15: DeletePages(ids) is atomic: while its statements run and after one
\* of them has failed, no page of the list is deleted and no revision, tag
\* association, share link or access row is removed; when it returns
\* without error every page of the list is deleted.
DeletePagesAtomic ==
  \A p \in Slots :
    req[p].op = "DeletePage"
    => /\ req[p].pc \in {"del_exec", "del_commit"} => StoreAsBefore(p)
       /\ (req[p].pc = "done" /\ req[p].err = "ErrInternal") => StoreAsBefore(p)
       /\ (req[p].pc = "done" /\ req[p].err = "")
            => \A k \in 1..Len(req[p].ids) : req[p].ids[k] \notin DOMAIN pages

\* A DeletePages of several pages has failed after its first DELETE, with
\* rows of the listed pages in every table.
DeletePagesFailedMidway ==
  \E p \in Slots :
    /\ req[p].op = "DeletePage"
    /\ req[p].pc = "done"
    /\ req[p].err = "ErrInternal"
    /\ Len(req[p].ids) >= 2
    /\ req[p].i >= 2
    /\ \E v \in DOMAIN revisions : revisions[v].page = req[p].ids[1]
    /\ \E t \in pageTags : t[1] = req[p].ids[1]
    /\ \E l \in DOMAIN shareLinks :
         /\ shareLinks[l].page = req[p].ids[1]
         /\ \E a \in DOMAIN shareAccess : shareAccess[a].link = l

\* The share links of the pages ids among the links sl.
LinksOfPages(sl, ids) == {l \in DOMAIN sl : sl[l].page \in ids}

\* The list of a slot's DeletePages as a set.
DeletedIds(p) == {req[p].ids[k] : k \in 1..Len(req[p].ids)}

\* C16: after a page and its descendants have been deleted by DeletePages,
\* children first, no page, revision, tag association, share link or access
\* row of a deleted page remains.
DeleteLeavesNoRows ==
  \A p \in Slots :
    (req[p].op = "DeletePage" /\ req[p].pc = "done" /\ req[p].err = "")
    => LET ids == DeletedIds(p)
           gone == LinksOfPages(req[p].preShare[2], ids)
       IN /\ ids \cap DOMAIN pages = {}
          /\ \A v \in DOMAIN revisions : revisions[v].page \notin ids
          /\ \A t \in pageTags : t[1] \notin ids
          /\ LinksOfPages(shareLinks, ids) = {}
          /\ \A a \in DOMAIN shareAccess : shareAccess[a].link \notin gone

\* A page with two descendants has been deleted; before the call the
\* deleted pages had revisions, a tag association, a share link and an
\* access row of that link.
DeletedTreeWithRows ==
  \E p \in Slots :
    /\ req[p].op = "DeletePage"
    /\ req[p].pc = "done"
    /\ req[p].err = ""
    /\ Len(req[p].ids) >= 3
    /\ \E v \in DOMAIN req[p].preRevs : req[p].preRevs[v].page \in DeletedIds(p)
    /\ \E t \in req[p].preShare[1] : t[1] \in DeletedIds(p)
    /\ \E l \in LinksOfPages(req[p].preShare[2], DeletedIds(p)) :
         \E a \in DOMAIN req[p].preShare[3] : req[p].preShare[3][a].link = l

\* The access rows of link l among the rows sa.
AccessRows(sa, l) == {a \in DOMAIN sa : sa[a].link = l}

\* Slot p has answered a ViewSharedPage of link l.
Viewed(p, l) ==
  /\ req[p].op = "ViewSharedPage"
  /\ req[p].pc = "done"
  /\ req[p].linkID = l
  /\ l \in DOMAIN shareLinks

\* The accesses of link l granted before the call of slot p began.
GrantedBefore(p, l) == Cardinality(AccessRows(req[p].preShare[3], l))

RecordedIPs(sa, l) == {sa[a].ip : a \in AccessRows(sa, l)}

ViewCountMatchesAccessRows ==
  \A l \in DOMAIN shareLinks :
    shareLinks[l].viewCount = Cardinality(AccessRows(shareAccess, l))

\* The refusals that precede the choice of the page to serve.
LinkRefusals == {"ShareLinkNotFound", "ShareLinkRevoked", "ShareLinkExpired",
                 "ViewLimitReached", "IPLimitReached"}

\* C20: a request that names a slug other than the linked page's is granted
\* only if the link includes children and the slug is of a descendant of
\* the linked page; in every other case it is refused as PageNotAccessible
\* (when no earlier refusal applies) and nothing is served or counted.
ChildSlugNeedsIncludeChildren ==
  \A l \in DOMAIN shareLinks, p \in Slots :
    (Viewed(p, l) /\ req[p].slug # <<>> /\ req[p].slug # req[p].linkSlug)
    => IF /\ req[p].link.includeChildren
          /\ IsPageDescendant(req[p].pre, req[p].link.page, req[p].slug).found
       THEN req[p].err = "" => req[p].page.slug = req[p].slug
       ELSE /\ req[p].err \in LinkRefusals \cup {"PageNotAccessible"}
            /\ StoreAsBefore(p)

\* A link in a state that refuses every attempt: revoked, expired or at
\* its view limit.
LinkClosed(link) == link.revoked \/ IsExpired(link) \/ IsViewLimitReached(link)

\* C21: is_revoked never returns to false and view_count never decreases,
\* so a link that refuses attempts as revoked, expired or at its view limit
\* stays so, and an attempt is granted only on a link that was in none of
\* these states when the attempt read it: after a refusal for one of them
\* no later attempt on the link is granted.
LinkClosedForGood ==
  /\ [](\A l \in DOMAIN shareLinks, p \in Slots :
          (Viewed(p, l) /\ req[p].err = "") => ~LinkClosed(req[p].link))
  /\ [][\A l \in DOMAIN shareLinks \cap DOMAIN shareLinks' :
          /\ shareLinks[l].revoked => shareLinks'[l].revoked
          /\ shareLinks'[l].viewCount >= shareLinks[l].viewCount
          /\ LinkClosed(shareLinks[l]) => LinkClosed(shareLinks'[l])]_vars

\* An attempt on a link that was viewed before has been refused as revoked.
RefusedAfterRevoke ==
  \E l \in DOMAIN shareLinks, p \in Slots :
    /\ Viewed(p, l)
    /\ req[p].err = "ShareLinkRevoked"
    /\ req[p].link.viewCount >= 1

\* The shape of a slug: characters of [a-z0-9/-] only, no hyphen or slash
\* at either end, no two slashes or two hyphens in a row, no hyphen next to
\* a slash.
WellFormedSlug(s) ==
  /\ \A i \in 1..Len(s) : SlugSafe(s[i])
  /\ s # <<>> => s[1] \notin {"-", "/"} /\ s[Len(s)] \notin {"-", "/"}
  /\ \A i \in 1..(Len(s) - 1) :
       /\ ~(s[i] = "/" /\ s[i + 1] = "/")
       /\ ~(s[i] = "-" /\ s[i + 1] = "-")
       /\ ~(s[i] = "-" /\ s[i + 1] = "/")
       /\ ~(s[i] = "/" /\ s[i + 1] = "-")

\* C22: for every input the output of Slugify is a well formed slug, so
\* every segment between slashes of a non-empty result is non-empty.
SlugifyOutputWellFormed ==
  sPc \in {"once", "twice"}
  => /\ WellFormedSlug(sOnce)
     /\ sOnce # <<>> => \A k \in 1..Len(Split(sOnce, "/")) : Split(sOnce, "/")[k] # <<>>

\* C23: within one request, however often its handler calls
\* RecordShareAccess, at most one access row is recorded and the link's
\* view_count grows by at most 1.
RecordedOncePerRequest ==
  \A p \in Slots :
    (req[p].op = "ShareMiddleware" /\ req[p].linkID \in DOMAIN shareLinks)
    => LET l == req[p].linkID
       IN /\ Cardinality(AccessRows(shareAccess, l))
               <= Cardinality(AccessRows(req[p].preShare[3], l)) + 1
          /\ shareLinks[l].viewCount <= req[p].preShare[2][l].viewCount + 1

\* C24: while the lockout of an address is running (maxAttempts failures
\* recorded, no successful login since, lockoutTime not yet elapsed since
\* the lock was set) no credential check is performed for that address,
\* whatever the interleaving of its login requests.
NoCredentialCheckDuringLockout ==
  [][\A p \in Slots :
       (\E ok \in BOOLEAN : LoginAuthenticate(p, ok))
       => ~LockedOut(loginAttempts, req[p].ip, now)]_vars

RECURSIVE PassedFrom(_, _, _)
\* The requests of client c let through at the n instants from t on.
PassedFrom(c, t, n) ==
  IF n = 0 \/ t > MaxTime THEN 0
  ELSE rlPassed[c][t] + PassedFrom(c, t + 1, n - 1)

\* C25: for each client, in every interval of length window the
\* RateLimiter lets through at most maxRequests requests.
AtMostMaxRequestsPerWindow ==
  \A c \in Clients, t \in 1..MaxTime : PassedFrom(c, t, window) <= maxRequests

\* C26: an UpdatePage that returns PageNotFound, SlugConflict or
\* InvalidTitle leaves the store as it was: no slug, parent, title or
\* content modified, no placeholder ancestor created, no revision appended.
UpdateRefusalLeavesStore ==
  \A p \in Slots :
    (/\ req[p].op = "UpdatePage"
     /\ req[p].pc = "done"
     /\ req[p].err \in {"ErrPageNotFound", "ErrPageExists", "ErrInvalidTitle"})
    => /\ pages = req[p].pre
       /\ revisions = req[p].preRevs

RECURSIVE IsBelow(_, _, _, _)
\* Page id has page top among its ancestors by parent_id, within n steps.
IsBelow(pg, id, top, n) ==
  /\ n > 0
  /\ id \in DOMAIN pg
  /\ pg[id].parent # NoParent
  /\ \/ pg[id].parent = top
     \/ IsBelow(pg, pg[id].parent, top, n - 1)

ViewCountWithinLimit ==
  \A l \in DOMAIN shareLinks :
    shareLinks[l].maxViews # 0
    => /\ shareLinks[l].viewCount <= shareLinks[l].maxViews
       /\ Cardinality(AccessRows(shareAccess, l)) <= shareLinks[l].maxViews

\* C29: the id list the DeletePage handler hands to DeletePages holds the
\* requested page and each of its transitive descendants exactly once, and
\* every page comes after all of its own descendants.
DeleteListChildrenFirst ==
  \A p \in Slots :
    (req[p].op = "DeletePage" /\ req[p].pc = "del_pages")
    => LET ids == req[p].ids
           below == {q \in DOMAIN pages : IsBelow(pages, q, req[p].pageID, MaxPageId)}
       IN /\ DeletedIds(p) = {req[p].pageID} \cup below
          /\ Len(ids) = Cardinality(DeletedIds(p))
          /\ \A i, j \in 1..Len(ids) :
               IsBelow(pages, ids[j], ids[i], MaxPageId) => j < i

\* The list of a page with a child and a grandchild has been built.
DeleteListOfDeepTree ==
  \E p \in Slots :
    /\ req[p].op = "DeletePage"
    /\ req[p].pc = "del_pages"
    /\ Len(req[p].ids) >= 3
    /\ \E q \in DeletedIds(p) :
         /\ pages[q].parent # NoParent
         /\ pages[q].parent # req[p].pageID

\* C30: a share access attempt that is refused, for whatever reason,
\* leaves the view_count of every link, the access log and with it the
\* recorded addresses as they were before the attempt.
RefusedViewLeavesCounters ==
  \A p \in Slots :
    (req[p].op = "ViewSharedPage" /\ req[p].pc = "done" /\ req[p].err # "")
    => /\ shareLinks = req[p].preShare[2]
       /\ shareAccess = req[p].preShare[3]

\* An attempt from a new address has been refused on a link that had
\* accesses recorded.
RefusedWithAccessesRecorded ==
  \E p \in Slots :
    /\ req[p].op = "ViewSharedPage"
    /\ req[p].pc = "done"
    /\ req[p].err = "IPLimitReached"
    /\ req[p].linkID \in DOMAIN shareLinks
    /\ shareLinks[req[p].linkID].viewCount >= 1
    /\ AccessRows(shareAccess, req[p].linkID) # {}

====
